---------------------------- MODULE Spec2Model ----------------------------
(***************************************************************************)
(* Model of the MVSEP Node client:                                         *)
(*   - src/unnamed/part_002 (retry.ts): isRetryableError, calculateBackoff,*)
(*     parseRetryAfter, sleep, retryWithBackoff, withTimeout               *)
(*   - src/src/client.ts: the constructor, MVSEPClient.request and         *)
(*     makeRequest, createSeparation, waitForSeparation and                *)
(*     createAndWaitForSeparation                                          *)
(*   - src/src/errors.ts: the error classes                                *)
(*                                                                         *)
(* The specifications, all over the same variables:                        *)
(*   Spec          one call of MVSEPClient.request against a server that   *)
(*                 answers each attempt with any response or failure;      *)
(*   SpecLive      Spec with every attempt getting its outcome and every   *)
(*                 sleep ending;                                           *)
(*   SpecCalls     two request calls, one after the other, on one client;  *)
(*   SpecUtil      the exported pure helpers applied to bounded inputs;    *)
(*   SpecPoll      one waitForSeparation call;                             *)
(*   SpecPoll2     two concurrent waitForSeparation calls;                 *)
(*   SpecPollLive  SpecPoll with status requests completing, sleeps ending *)
(*                 and the clock advancing;                                *)
(*   SpecCreate    one createSeparation or createAndWaitForSeparation call;*)
(*   SpecNew       one constructor call;                                   *)
(*   SpecHints     one request call against a server that sends            *)
(*                 Retry-After headers of every form;                      *)
(*   SpecWait      one waitForSeparation call whose status requests run    *)
(*                 the retry loop of MVSEPClient.request.                  *)
(***************************************************************************)
EXTENDS Integers, Sequences, FiniteSets, TLC

VARIABLES
    maxRetries,      \* this.maxRetries (client.ts:84)
    retryDelay,      \* this.retryDelay (client.ts:85)
    pc,              \* position of the request call
    attempt,         \* loop variable of retryWithBackoff (part_002:90)
    lastError,       \* local lastError of retryWithBackoff (part_002:88)
    delay,           \* local delay of retryWithBackoff (part_002:102)
    result,          \* value the request call returned
    thrown,          \* error the request call rejected with
    now,             \* Date.now()
    lastResp,        \* response received by the latest finished attempt
    fetches,         \* number of fetch() calls issued so far
    nRetryableFails, \* finished attempts that failed with a retryable error
    only503,         \* every finished attempt so far got a 503 response
    slept,           \* number of backoff sleeps started so far
    wt,              \* withTimeout call of the latest attempt (part_002:123)
    orphans,         \* fetch calls of earlier attempts that are still pending
    poll,            \* the waitForSeparation calls (client.ts:471), by session
    server,          \* which answers the server of the specification gives
    calls,           \* the request calls made on the client and what they sent
    sep,             \* the createSeparation call (client.ts:404)
    made,            \* the constructor call of SpecNew (client.ts:76)
    util             \* call record of the pure-helper harness (SpecUtil)

vars == <<maxRetries, retryDelay, pc, attempt, lastError, delay, result,
          thrown, now, lastResp, fetches, nRetryableFails, only503, slept, wt,
          orphans, poll, server, calls, sep, made, util>>

reqVars == <<maxRetries, retryDelay, pc, attempt, lastError, delay, result,
             thrown, now, lastResp, fetches, nRetryableFails, only503, slept,
             wt, orphans, poll, server, calls, sep, made>>

-----------------------------------------------------------------------------
(* Bounds of the model *)

\* largest maxRetries a client is configured with
MaxRetries == 3
\* longest Retry-After header text given to parseRetryAfter in SpecUtil
MaxLen == 3
\* largest attempt index given to calculateBackoff in SpecUtil
MaxAttempt == 1026

-----------------------------------------------------------------------------
(* JavaScript numbers.  Values are integers; three values stand for the    *)
(* doubles that TLC's integers cannot hold.                                *)

\* NaN
NaN == -2147483647
\* +Infinity
Infinity == 2000000000
\* a finite double of at least 2^16, larger than every number compared with it
Huge == 1999999999

\* Math.pow(2, n) overflows to Infinity from this exponent on (2^1024 > max double)
POW_OVERFLOW_EXP == 1024
\* from this exponent on, 2^n is represented by Huge
HUGE_EXP == 16

\* Math.pow(2, n) for an integer n >= 0
Pow2(n) ==
    IF n >= POW_OVERFLOW_EXP THEN Infinity
    ELSE IF n >= HUGE_EXP THEN Huge
    ELSE 2 ^ n

\* x * y for a finite integer x and y a result of Pow2
Times(x, y) ==
    IF x = NaN THEN NaN
    ELSE IF y = Infinity
        THEN (IF x = 0 THEN NaN ELSE IF x > 0 THEN Infinity ELSE -Infinity)
    ELSE IF y = Huge
        THEN (IF x = 0 THEN 0 ELSE IF x > 0 THEN Huge ELSE -Huge)
    ELSE x * y

\* Math.min(x, y): NaN if either argument is NaN
MathMin(x, y) ==
    IF x = NaN \/ y = NaN THEN NaN ELSE IF x <= y THEN x ELSE y

\* Math.max(x, y)
MathMax(x, y) ==
    IF x = NaN \/ y = NaN THEN NaN ELSE IF x >= y THEN x ELSE y

\* x <= y as JavaScript evaluates it: false when either side is NaN
LeqJS(x, y) == x # NaN /\ y # NaN /\ x <= y

\* truthiness of a number: 0 and NaN are falsy
TruthyNum(x) == x # 0 /\ x # NaN

-----------------------------------------------------------------------------
(* Program constants *)

DEFAULT_MAX_RETRIES == 3
DEFAULT_RETRY_DELAY == 1000
BACKOFF_CAP == 32000
\* RETRYABLE_STATUS_CODES with 503 left out of the list
RetryableStatusCodesNo503 == {408, 429, 500, 502, 504}
RETRYABLE_STATUS_CODES == {408, 429, 500, 502, 503, 504}
RETRYABLE_ERROR_CODES == {"ECONNRESET", "ETIMEDOUT", "ENOTFOUND", "ECONNREFUSED"}

-----------------------------------------------------------------------------
(* Error values (errors.ts).  Every error is a record with the same        *)
(* fields; status 0, code "", retryAfter 0 and headers <<>> stand for an   *)
(* undefined field.  headers holds the 'retry-after' entry of              *)
(* APIError.headers.                                                       *)

MkError(k, st, cd, ra, hd, cs) ==
    [kind |-> k, status |-> st, code |-> cd, retryAfter |-> ra,
     headers |-> hd, cause |-> cs]

NoError == MkError("none", 0, "", 0, <<>>, "")
\* the value of an unassigned local (`throw lastError` with no attempt made)
UndefinedError == MkError("undefined", 0, "", 0, <<>>, "")

APIError(st, hd) == MkError("API", st, "", 0, hd, "")
NetworkError(cs) == MkError("Network", 0, "", 0, <<>>, cs)
AuthenticationError == MkError("Authentication", 0, "AUTH_ERROR", 0, <<>>, "")
RateLimitError(st, ra) == MkError("RateLimit", st, "", ra, <<>>, "")
ValidationError == MkError("Validation", 0, "VALIDATION_ERROR", 0, <<>>, "")
TimeoutError == MkError("Timeout", 0, "TIMEOUT_ERROR", 0, <<>>, "")
\* an error that is no MVSEPError: a raw rejection with a name and a code
RawError(nm, cd) == MkError("Raw", 0, cd, 0, <<>>, nm)

-----------------------------------------------------------------------------
(* Strings are sequences of one-character strings.  The empty sequence     *)
(* also stands for null and undefined: the code only tests such a value    *)
(* for truthiness (`!retryAfter`, `error.headers?.['retry-after']`).       *)

DigitChars == {"0", "1", "2", "3", "4", "5", "6", "7", "8", "9"}

DigitVal(c) ==
    CASE c = "0" -> 0 [] c = "1" -> 1 [] c = "2" -> 2 [] c = "3" -> 3
      [] c = "4" -> 4 [] c = "5" -> 5 [] c = "6" -> 6 [] c = "7" -> 7
      [] c = "8" -> 8 [] c = "9" -> 9

RECURSIVE SkipWhitespace(_)
SkipWhitespace(s) ==
    IF s # <<>> /\ Head(s) = " " THEN SkipWhitespace(Tail(s)) ELSE s

\* the longest prefix of s made of decimal digits
RECURSIVE DigitPrefix(_)
DigitPrefix(s) ==
    IF s # <<>> /\ Head(s) \in DigitChars
        THEN <<Head(s)>> \o DigitPrefix(Tail(s))
        ELSE <<>>

\* the number a non-empty sequence of digits denotes
RECURSIVE DigitsValue(_)
DigitsValue(ds) ==
    IF ds = <<>> THEN 0
    ELSE 10 * DigitsValue(SubSeq(ds, 1, Len(ds) - 1)) + DigitVal(ds[Len(ds)])

\* parseInt(s, 10): leading whitespace is skipped, one sign is accepted, the
\* longest run of digits is read and whatever follows is ignored; NaN when
\* there is no digit.
ParseInt10(s) ==
    LET t == SkipWhitespace(s)
        neg == t # <<>> /\ Head(t) = "-"
        signed == t # <<>> /\ Head(t) \in {"-", "+"}
        ds == DigitPrefix(IF signed THEN Tail(t) ELSE t)
    IN  IF ds = <<>> THEN NaN
        ELSE IF neg THEN 0 - DigitsValue(ds) ELSE DigitsValue(ds)

\* new Date(s).getTime() for the strings parseRetryAfter hands to it.  An
\* HTTP date is written "D" followed by the digits of its time in seconds
\* ("D" stands for the textual form "Wed, 21 Oct 2015 07:28:00 GMT", which
\* starts with a letter); every other string is an invalid date (NaN).
DateGetTime(s) ==
    IF Len(s) >= 2 /\ Head(s) = "D" /\ DigitPrefix(Tail(s)) = Tail(s)
        THEN 1000 * DigitsValue(Tail(s))
        ELSE NaN

-----------------------------------------------------------------------------
(* retry.ts *)

\* isRetryableError with the status test reduced to `error.status`: every
\* error that carries a status is retried
isRetryableErrorAnyStatus(error) ==
    IF error.kind \in {"Network", "Timeout"} THEN TRUE
    ELSE IF error.kind = "RateLimit" THEN TRUE
    ELSE IF error.status # 0 THEN TRUE
    ELSE IF error.code # "" /\ error.code \in RETRYABLE_ERROR_CODES THEN TRUE
    ELSE FALSE

isRetryableError(error) ==
    IF error.kind \in {"Network", "Timeout"} THEN TRUE
    ELSE IF error.kind = "RateLimit" THEN TRUE
    ELSE IF error.status # 0 /\ error.status \in RETRYABLE_STATUS_CODES THEN TRUE
    ELSE IF error.code # "" /\ error.code \in RETRYABLE_ERROR_CODES THEN TRUE
    ELSE FALSE

calculateBackoff(att, baseDelay) ==
    MathMin(Times(baseDelay, Pow2(att)), BACKOFF_CAP)

\* parseRetryAfter without Math.max(0, ...): a past date gives a negative delay
parseRetryAfterNoClamp(retryAfter, t) ==
    IF retryAfter = <<>> THEN 0
    ELSE LET seconds == ParseInt10(retryAfter)
             date == DateGetTime(retryAfter)
         IN  IF seconds # NaN THEN seconds * 1000
             ELSE IF date # NaN THEN date - t
             ELSE 0

\* parseRetryAfter(retryAfter) evaluated when Date.now() = t
parseRetryAfter(retryAfter, t) ==
    IF retryAfter = <<>> THEN 0
    ELSE LET seconds == ParseInt10(retryAfter)
             date == DateGetTime(retryAfter)
         IN  IF seconds # NaN THEN seconds * 1000
             ELSE IF date # NaN THEN MathMax(0, date - t)
             ELSE 0

\* the time a timer set by sleep(ms) takes: setTimeout runs a delay below
\* 1 ms (or NaN) as 1 ms
\* a sleep that resolves at once
SleepTimeNone(ms) == 0

SleepTime(ms) == IF ms = NaN \/ ms < 1 THEN 1 ELSE ms

\* the delay retryWithBackoff chooses after `error` failed attempt `att`
RetryDelayFor(error, att, baseDelay, t) ==
    IF error.kind = "RateLimit" /\ TruthyNum(error.retryAfter)
        THEN error.retryAfter
    ELSE IF error.headers # <<>>
        THEN parseRetryAfter(error.headers, t)
    ELSE calculateBackoff(att, baseDelay)

-----------------------------------------------------------------------------
(* The server.  A response has a status, a content type ("json" when the   *)
(* content-type header includes application/json), a body text and a       *)
(* Retry-After header (<<>> when the header is absent).                    *)

Statuses == {200, 204, 400, 401, 403, 404, 422, 429, 503}
\* body texts: a JSON object, the JSON value null, and a text that is no JSON
Bodies == {"{}", "null", "<"}
RetryAfterHeaders == {<<>>, <<"0">>, <<"2">>, <<"x">>, <<"D", "6">>}

Responses ==
    {r \in [status : Statuses, ctype : {"json", "text"}, body : Bodies,
            retryAfter : RetryAfterHeaders] :
        r.ctype = "text" => r.body = "<"}

\* a response as fetch resolves with it: status and headers, body unread
HeadOf(resp) == [resp EXCEPT !.body = ""]

NoResp == [status |-> 0, ctype |-> "", body |-> "", retryAfter |-> <<>>]

\* rejections of fetch() itself: a TypeError (the transport failed), and
\* errors of another name with or without a Node error code
FetchRejections == {RawError("TypeError", ""), RawError("Error", "ECONNREFUSED"),
                    RawError("AbortError", "")}

\* response.ok
ResponseOk(resp) == resp.status >= 200 /\ resp.status <= 299

-----------------------------------------------------------------------------
(* client.ts: makeRequest *)

NoData == [type |-> "none", raw |-> ""]

\* lines 133-140: response.json() or response.text(); threw is TRUE when
\* response.json() rejects (a SyntaxError)
ParseBody(resp) ==
    IF resp.ctype = "json"
        THEN CASE resp.body = "{}" -> [threw |-> FALSE, data |-> [type |-> "object", raw |-> resp.body]]
               [] resp.body = "null" -> [threw |-> FALSE, data |-> [type |-> "null", raw |-> resp.body]]
               [] OTHER -> [threw |-> TRUE, data |-> NoData]
        ELSE [threw |-> FALSE, data |-> [type |-> "string", raw |-> resp.body]]

\* reading data.message throws a TypeError when data is null
MessageThrows(data) == data.type = "null"

\* lines 186-208: the catch block of makeRequest
Caught(error) ==
    IF error.kind # "Raw" THEN error
    ELSE IF error.cause = "TypeError" \/ error.code = "ECONNREFUSED"
        THEN NetworkError(error.cause)
    ELSE NetworkError(error.cause)

Success(d) == [ok |-> TRUE, data |-> d, error |-> NoError]
Failure(e) == [ok |-> FALSE, data |-> NoData, error |-> e]

\* lines 142-179: the error thrown for a non-2xx response whose body is data
ErrorForStatus(resp, data, t) ==
    IF resp.status = 429
        THEN RateLimitError(resp.status, parseRetryAfter(resp.retryAfter, t))
    ELSE IF resp.status = 401 \/ resp.status = 403
        THEN AuthenticationError
    ELSE IF resp.status = 400 \/ resp.status = 422
        THEN ValidationError
    ELSE APIError(resp.status, resp.retryAfter)

\* makeRequest without the `!response.ok` branch: every parsed body is returned
HandleResponseNoStatusCheck(resp, t) ==
    LET parsed == ParseBody(resp)
    IN  IF parsed.threw THEN Failure(Caught(RawError("SyntaxError", "")))
        ELSE Success(parsed.data)

\* lines 126-208: makeRequest once fetch has resolved with resp
HandleResponse(resp, t) ==
    LET parsed == ParseBody(resp)
    IN  IF parsed.threw THEN Failure(Caught(RawError("SyntaxError", "")))
        ELSE IF ResponseOk(resp) THEN Success(parsed.data)
        ELSE IF MessageThrows(parsed.data)
            THEN Failure(Caught(RawError("TypeError", "")))
        ELSE Failure(Caught(ErrorForStatus(resp, parsed.data, t)))

\* lines 119-124, 186-208: makeRequest when the awaited fetch rejects
HandleRejection(error) == Failure(Caught(error))

-----------------------------------------------------------------------------
(* withTimeout(promise, timeoutMs) (part_002:123-139).  A call is a record  *)
(*   op, opValue    state of the wrapped promise and what it settled with   *)
(*   timer          "pending" | "fired" | "cleared": the setTimeout timer   *)
(*   out, outValue  state of the promise withTimeout returns                *)
(* opValue is recorded when the wrapped promise wins the race.              *)

WtIdle ==
    [op |-> "none", opValue |-> NoResp, timer |-> "none",
     out |-> "none", outValue |-> NoResp]

\* part_002:130-132, 135: the timer is set and the race is awaited
WtStart ==
    [op |-> "pending", opValue |-> NoResp, timer |-> "pending",
     out |-> "pending", outValue |-> NoResp]

\* part_002:137: clearTimeout(timeoutId)
ClearTimeout(timer) == IF timer = "pending" THEN "cleared" ELSE timer

\* the finally block of part_002:136-138 left out
WtOpSettlesNoFinally(w, how, value) ==
    IF w.out = "pending"
        THEN [w EXCEPT !.op = how, !.opValue = value,
                       !.out = how, !.outValue = value]
        ELSE [w EXCEPT !.op = how]

\* a race that the latest settlement wins
WtOpSettlesLastWins(w, how, value) ==
    [op |-> how, opValue |-> value, timer |-> ClearTimeout(w.timer),
     out |-> how, outValue |-> value]

\* part_002:135-138: the wrapped promise settles (how = "resolved" or
\* "rejected"); Promise.race follows it unless the race is already settled
WtOpSettles(w, how, value) ==
    IF w.out = "pending"
        THEN [op |-> how, opValue |-> value, timer |-> ClearTimeout(w.timer),
              out |-> how, outValue |-> value]
        ELSE [w EXCEPT !.op = how]

\* part_002:131, 135-138: the timer fires and rejects the race
WtTimerFires(w) ==
    IF w.out = "pending"
        THEN [w EXCEPT !.timer = ClearTimeout("fired"), !.out = "rejected",
                       !.outValue = TimeoutError]
        ELSE [w EXCEPT !.timer = "fired"]

\* client.ts:126-185 after the await of client.ts:121, 186-208 when it threw
AfterWithTimeout(w, t) ==
    IF w.out = "resolved"
        THEN HandleResponse(w.outValue, t)
        ELSE HandleRejection(w.outValue)

\* network calls issued by this request call that have not finished
InFlight(w, orph) == orph + (IF w.op = "pending" THEN 1 ELSE 0)

-----------------------------------------------------------------------------
(* The request a call sends (client.ts:97-124) and the calls made on one   *)
(* client.  Headers are functions from header names to values.  calls is   *)
(*   made, limit      request calls made so far / made at most             *)
(*   first            how the first call ended, once a second is made      *)
(*   custom           this.customHeaders                                   *)
(*   endpoint, options   the arguments of request                          *)
(*   request          url and requestOptions of the current call           *)
(*   sent             the arguments of the fetch calls of the current call *)

DEFAULT_BASE_URL == "https://mvsep.com"

\* {...a, ...b}
MergeHeaders(a, b) ==
    [k \in DOMAIN a \cup DOMAIN b |-> IF k \in DOMAIN b THEN b[k] ELSE a[k]]

\* client.ts:104
UserAgentHeader == [k \in {"User-Agent"} |-> "@mvsep/node/1.0.0"]
\* client.ts:111
JsonContentType == [k \in {"Content-Type"} |-> "application/json"]

\* headers built without this.customHeaders
BuildHeadersNoCustom(custom, opts) ==
    LET h == MergeHeaders(UserAgentHeader, opts.headers)
    IN  IF /\ opts.body # "FormData"
           /\ ~("Content-Type" \in DOMAIN h /\ h["Content-Type"] # "")
            THEN MergeHeaders(h, JsonContentType)
            ELSE h

\* client.ts:103-112
BuildHeaders(custom, opts) ==
    LET h == MergeHeaders(MergeHeaders(UserAgentHeader, custom), opts.headers)
    IN  IF /\ opts.body # "FormData"
           /\ ~("Content-Type" \in DOMAIN h /\ h["Content-Type"] # "")
            THEN MergeHeaders(h, JsonContentType)
            ELSE h

\* client.ts:97, 114-117: url and requestOptions
BuildRequest(endpoint, custom, opts) ==
    [url |-> <<DEFAULT_BASE_URL, endpoint>>, method |-> opts.method,
     body |-> opts.body, headers |-> BuildHeaders(custom, opts)]

NoOptions == [method |-> "", body |-> "", headers |-> <<>>]
NoRequest == [url |-> <<>>, method |-> "", body |-> "", headers |-> <<>>]
NoCall == [pc |-> "idle", fetches |-> 0, thrown |-> NoError, result |-> NoData]

OneCall ==
    [made |-> 0, limit |-> 1, first |-> NoCall, custom |-> <<>>,
     endpoint |-> "/api/app/algorithms", options |-> NoOptions,
     request |-> NoRequest, sent |-> <<>>]

\* part_002:92 -> client.ts:121-124: the fetch of attempt att, if the loop
\* makes one, is called with the url and requestOptions of the call
FetchSent(c, att, maxR) ==
    IF att <= maxR THEN [c EXCEPT !.sent = Append(@, c.request)] ELSE c

\* Retry-After headers of the "hints" server: none, zero, garbage, 60 s,
\* -5 s, a date in the past and a date more than 32 s ahead
HintHeaders ==
    {<<>>, <<"0">>, <<"x">>, <<"6", "0">>, <<"-", "5">>, <<"D", "1">>,
     <<"D", "9", "9">>}

\* the answers of the servers: "any" gives any response; "plain" any status
\* with a JSON object as body; "hints" a 200, 429 or 503 with a JSON object
\* and any of HintHeaders; "up" a 200 or a 503 with a JSON object
Answers(srv) ==
    CASE srv = "any" -> Responses
      [] srv = "hints" ->
            {[status |-> st, ctype |-> "json", body |-> "{}",
              retryAfter |-> h] : st \in {200, 429, 503}, h \in HintHeaders}
      [] srv = "job" ->
            {r \in Responses : /\ r.status \in {200, 404, 503}
                               /\ r.ctype = "json"
                               /\ r.body = "{}"
                               /\ r.retryAfter = <<>>}
      [] srv = "plain" ->
            {r \in Responses : /\ r.ctype = "json"
                               /\ r.body = "{}"
                               /\ r.retryAfter \in {<<>>, <<"2">>}}
      [] OTHER ->
            {r \in Responses : /\ r.status \in {200, 503}
                               /\ r.ctype = "json"
                               /\ r.body = "{}"
                               /\ r.retryAfter = <<>>}

-----------------------------------------------------------------------------
(* waitForSeparation(hash, options) (client.ts:471-515).  A polling session *)
(* is a record                                                             *)
(*   pc           "idle" | "fetching" | "sleeping" | "returned" | "failed"  *)
(*   hash, job    the job polled and the statuses its server reports       *)
(*   hasCb, optInterval, optMaxDuration   options.onProgress / .interval / *)
(*                .maxDuration                                             *)
(*   interval, maxDuration, startTime     the locals of client.ts:475-477  *)
(*   sleepStart   Date.now() when sleep(interval) was called               *)
(*   fetches      getSeparation calls issued                               *)
(*   seen         the SeparationResponses getSeparation resolved with      *)
(*   log          arguments of the onProgress invocations, in order        *)
(*   result, thrown   what the call resolved or rejected with              *)

DEFAULT_POLL_INTERVAL == 5000
DEFAULT_POLL_MAX_DURATION == 1800000

\* types.ts:155: SeparationStatusType
JobStatuses == {"waiting", "processing", "done", "error"}
TerminalStatuses == {"done", "error"}

Sessions == {1, 2}
HashOf(s) == <<"job", s>>

\* errors.ts:108-114
SeparationError(hash) ==
    [kind |-> "Separation", status |-> 0, code |-> "SEPARATION_ERROR",
     retryAfter |-> 0, headers |-> <<>>, cause |-> "", hash |-> hash]

\* an error thrown by the caller's onProgress function
CallbackError == RawError("CallbackError", "")

NoStatus == [status |-> "none", data |-> [hash |-> <<>>, seq |-> 0]]

\* the SeparationResponse the server gives to the i-th status request for a
\* job: the job's i-th status (its last status from then on)
ServerStatus(job, hash, i) ==
    [status |-> job[IF i <= Len(job) THEN i ELSE Len(job)],
     data |-> [hash |-> hash, seq |-> i]]

PollIdle(s) ==
    [pc |-> "idle", hash |-> HashOf(s), job |-> <<"done">>, hasCb |-> FALSE,
     optInterval |-> 0, optMaxDuration |-> 0,
     interval |-> 0, maxDuration |-> 0, startTime |-> 0, sleepStart |-> 0,
     fetches |-> 0, seen |-> <<>>, log |-> <<>>, result |-> NoStatus,
     thrown |-> NoError]

\* client.ts:475-476: options.x || DEFAULT
OrDefault(x, default) == IF TruthyNum(x) THEN x ELSE default

\* client.ts:475-477: the locals at the start of the call at time t
PollStart(p, t) ==
    [p EXCEPT !.interval = OrDefault(p.optInterval, DEFAULT_POLL_INTERVAL),
              !.maxDuration =
                  OrDefault(p.optMaxDuration, DEFAULT_POLL_MAX_DURATION),
              !.startTime = t]

\* client.ts:482
DeadlinePassed(p, t) == t - p.startTime > p.maxDuration

\* the loop without the check of client.ts:482-486
PollLoopTopNoDeadline(p, t) ==
    [p EXCEPT !.pc = "fetching", !.fetches = @ + 1]

\* client.ts:480-488: the deadline check, then getSeparation(hash) is called
PollLoopTop(p, t) ==
    IF DeadlinePassed(p, t)
        THEN [p EXCEPT !.pc = "failed", !.thrown = TimeoutError]
        ELSE [p EXCEPT !.pc = "fetching", !.fetches = @ + 1]

\* a progress report that leaves the data out
ProgressOfNoData(p, st) ==
    [hash |-> p.hash, status |-> st.status, data |-> NoStatus.data]

\* client.ts:491-497: the argument of onProgress
ProgressOf(p, st) == [hash |-> p.hash, status |-> st.status, data |-> st.data]

\* onProgress called for the non-terminal statuses only
OnStatusQuietAtEnd(p, st, throws, t) ==
    LET called == p.hasCb /\ st.status \notin TerminalStatuses
        q == IF called
                 THEN [p EXCEPT !.log = Append(@, ProgressOf(p, st))]
                 ELSE p
    IN  IF called /\ throws
            THEN [q EXCEPT !.pc = "failed", !.thrown = CallbackError]
        ELSE IF st.status = "done"
            THEN [q EXCEPT !.pc = "returned", !.result = st]
        ELSE IF st.status = "error"
            THEN [q EXCEPT !.pc = "failed", !.thrown = SeparationError(p.hash)]
        ELSE [q EXCEPT !.pc = "sleeping", !.sleepStart = t]

\* a failed job treated like a running one
OnStatusIgnoresError(p, st, throws, t) ==
    LET q == IF p.hasCb
                 THEN [p EXCEPT !.log = Append(@, ProgressOf(p, st))]
                 ELSE p
    IN  IF p.hasCb /\ throws
            THEN [q EXCEPT !.pc = "failed", !.thrown = CallbackError]
        ELSE IF st.status = "done"
            THEN [q EXCEPT !.pc = "returned", !.result = st]
        ELSE [q EXCEPT !.pc = "sleeping", !.sleepStart = t]

\* the call returning as soon as the job is being processed
OnStatusReturnsEarly(p, st, throws, t) ==
    LET q == IF p.hasCb
                 THEN [p EXCEPT !.log = Append(@, ProgressOf(p, st))]
                 ELSE p
    IN  IF p.hasCb /\ throws
            THEN [q EXCEPT !.pc = "failed", !.thrown = CallbackError]
        ELSE IF st.status \in {"done", "processing"}
            THEN [q EXCEPT !.pc = "returned", !.result = st]
        ELSE IF st.status = "error"
            THEN [q EXCEPT !.pc = "failed", !.thrown = SeparationError(p.hash)]
        ELSE [q EXCEPT !.pc = "sleeping", !.sleepStart = t]

\* the loop going on after onProgress threw
OnStatusGoesOnAfterThrow(p, st, throws, t) ==
    LET q == IF p.hasCb
                 THEN [p EXCEPT !.log = Append(@, ProgressOf(p, st))]
                 ELSE p
        r == IF p.hasCb /\ throws
                 THEN [q EXCEPT !.thrown = CallbackError]
                 ELSE q
    IN  IF st.status = "done"
            THEN [r EXCEPT !.pc = "returned", !.result = st]
        ELSE IF st.status = "error"
            THEN [r EXCEPT !.pc = "failed", !.thrown = SeparationError(p.hash)]
        ELSE [r EXCEPT !.pc = "sleeping", !.sleepStart = t]

\* client.ts:488-514: getSeparation resolved with st at time t; throws tells
\* whether onProgress, if called, throws
OnStatus(p, st, throws, t) ==
    LET q == IF p.hasCb
                 THEN [p EXCEPT !.log = Append(@, ProgressOf(p, st))]
                 ELSE p
    IN  IF p.hasCb /\ throws
            THEN [q EXCEPT !.pc = "failed", !.thrown = CallbackError]
        ELSE IF st.status = "done"
            THEN [q EXCEPT !.pc = "returned", !.result = st]
        ELSE IF st.status = "error"
            THEN [q EXCEPT !.pc = "failed", !.thrown = SeparationError(p.hash)]
        ELSE [q EXCEPT !.pc = "sleeping", !.sleepStart = t]

\* the rejection of getSeparation caught and the loop going on
OnStatusFailureGoesOn(p, error) == [p EXCEPT !.pc = "sleeping"]

\* client.ts:488: getSeparation rejected with error
OnStatusFailure(p, error) == [p EXCEPT !.pc = "failed", !.thrown = error]

NoPolls == [s \in Sessions |-> PollIdle(s)]

-----------------------------------------------------------------------------
(* createSeparation (client.ts:404-430) and createAndWaitForSeparation      *)
(* (client.ts:534-540).  The value request resolves with is a record        *)
(*   type   "null" (JSON null), "string" (a text body) or "object"          *)
(*   hash   the value of its hash property                                   *)
(*   data   its data property: type "undefined", "null" or "object", and    *)
(*          the hash property of that object                                *)
(* The call is a record                                                     *)
(*   pc        "idle", "creating" (request under way), "returned", "failed" *)
(*   wait      the call was made by createAndWaitForSeparation              *)
(*   response  what request resolved with                                   *)
(*   hash      the hash of the value returned                               *)
(*   thrown    the error the call rejected with                             *)

\* values of a hash property: none, null, the empty string or a job hash
UndefinedValue == <<"undefined">>
NullValue == <<"null">>
EmptyString == <<>>
\* JavaScript truthiness of such a value
Truthy(v) == v \notin {UndefinedValue, NullValue, EmptyString}

\* errors.ts:97-103
FileUploadError == MkError("FileUpload", 0, "FILE_UPLOAD_ERROR", 0, <<>>, "")

\* errors.ts:8: error instanceof MVSEPError
IsMVSEPError(error) == error.kind \notin {"none", "undefined", "Raw"}

NoDataField == [type |-> "undefined", hash |-> UndefinedValue]
DataFields ==
    {NoDataField, [type |-> "null", hash |-> UndefinedValue]}
        \cup {[type |-> "object", hash |-> h] :
                 h \in {UndefinedValue, EmptyString, HashOf(2)}}

\* what request resolves with for the create call
CreateResponses ==
    {[type |-> t, hash |-> UndefinedValue, data |-> NoDataField] :
         t \in {"null", "string"}}
        \cup {[type |-> "object", hash |-> h, data |-> d] :
                 h \in {UndefinedValue, NullValue, EmptyString, HashOf(1)},
                 d \in DataFields}

\* what request rejects with for the create call: an error of the taxonomy,
\* or undefined (part_002:117 when the loop made no attempt)
CreateFailures == {NetworkError(""), AuthenticationError, UndefinedError}

NoCreate ==
    [pc |-> "idle", wait |-> FALSE,
     response |-> [type |-> "none", hash |-> UndefinedValue,
                   data |-> NoDataField],
     hash |-> UndefinedValue, thrown |-> NoError]

\* client.ts:419: response.data?.hash
OptionalHash(d) == IF d.type = "object" THEN d.hash ELSE UndefinedValue

\* client.ts:417-421: the hash returned, if any
ExtractHash(resp) ==
    IF Truthy(resp.hash) THEN resp.hash ELSE OptionalHash(resp.data)

\* client.ts:424-429: the catch block of createSeparation; reading
\* error.message of undefined throws a TypeError
CreateCaught(error) ==
    IF IsMVSEPError(error) THEN error
    ELSE IF error = UndefinedError THEN RawError("TypeError", "")
    ELSE FileUploadError

\* client.ts:411-429: request resolved with resp; reading null.hash throws
\* a TypeError, which the catch block gets
CreateOnResponse(c, resp) ==
    LET d == [c EXCEPT !.response = resp]
    IN  IF resp.type = "null"
            THEN [d EXCEPT !.pc = "failed",
                           !.thrown = CreateCaught(RawError("TypeError", ""))]
        ELSE IF Truthy(ExtractHash(resp))
            THEN [d EXCEPT !.pc = "returned", !.hash = ExtractHash(resp)]
        ELSE [d EXCEPT !.pc = "failed",
                       !.thrown = CreateCaught(SeparationError(UndefinedValue))]

\* client.ts:411-429: request rejected with error
CreateOnFailure(c, error) ==
    [c EXCEPT !.pc = "failed", !.thrown = CreateCaught(error)]

\* polling started for the hash the session was configured with
StartWaitPresetHash(p, hash, t) == PollLoopTop(PollStart(p, t), t)

\* client.ts:539 -> 471-488: waitForSeparation(hash, pollingOptions) is
\* called and runs up to its first await
StartWait(p, hash, t) ==
    PollLoopTop(PollStart([p EXCEPT !.hash = hash], t), t)

-----------------------------------------------------------------------------
(* The constructor (client.ts:76-88).  An optional field of the config is   *)
(* <<>> when it is not given and <<v>> when it has the value v.  The call   *)
(* is a record                                                              *)
(*   pc       "new" (not called), "built" or "threw"                        *)
(*   config   the argument                                                  *)
(*   client   the fields of the object constructed                          *)
(*   thrown   the error the constructor threw                               *)

DEFAULT_TIMEOUT == 30000

\* x || default for an optional number
NumberOr(opt, default) ==
    IF opt # <<>> /\ TruthyNum(opt[1]) THEN opt[1] ELSE default

\* x ?? default
Coalesce(opt, default) == IF opt # <<>> THEN opt[1] ELSE default

\* x || default for an optional string
StringOr(opt, default) ==
    IF opt # <<>> /\ opt[1] # "" THEN opt[1] ELSE default

NoClient ==
    [apiToken |-> "", baseURL |-> "", timeout |-> 0, maxRetries |-> 0,
     retryDelay |-> 0, customHeaders |-> <<>>]

NotConstructed ==
    [pc |-> "new",
     config |-> [apiToken |-> <<>>, baseURL |-> <<>>, timeout |-> <<>>,
                 maxRetries |-> <<>>, retryDelay |-> <<>>,
                 customHeaders |-> <<>>],
     client |-> NoClient, thrown |-> NoError]

\* client.ts:81-87: the fields assigned
FieldsOf(cfg) ==
    [apiToken |-> cfg.apiToken[1],
     baseURL |-> StringOr(cfg.baseURL, DEFAULT_BASE_URL),
     timeout |-> NumberOr(cfg.timeout, DEFAULT_TIMEOUT),
     maxRetries |-> Coalesce(cfg.maxRetries, DEFAULT_MAX_RETRIES),
     retryDelay |-> NumberOr(cfg.retryDelay, DEFAULT_RETRY_DELAY),
     customHeaders |-> Coalesce(cfg.customHeaders, <<>>)]

\* the constructor without the test of client.ts:77-79
ConstructUnchecked(m) ==
    [m EXCEPT !.pc = "built",
              !.client = FieldsOf([m.config EXCEPT
                             !.apiToken = IF @ = <<>> THEN <<"">> ELSE @])]

\* client.ts:76-88
Construct(m) ==
    IF m.config.apiToken = <<>> \/ m.config.apiToken[1] = ""
        THEN [m EXCEPT !.pc = "threw", !.thrown = ValidationError]
        ELSE [m EXCEPT !.pc = "built", !.client = FieldsOf(m.config)]

-----------------------------------------------------------------------------
(* One call of MVSEPClient.request (client.ts:93-216), which runs           *)
(* retryWithBackoff(makeRequest, ...) (part_002:83-118).                    *)
(*   pc = "idle"      the call has not been made                            *)
(*        "inflight"  an attempt awaits withTimeout(fetch(...))             *)
(*        "reading"   an attempt awaits response.json() / response.text()   *)
(*        "sleep"     the loop awaits sleep(delay)                          *)
(*        "returned"  the call resolved with result                         *)
(*        "failed"    the call rejected with thrown                         *)

\* values of retryDelay the clients of the model are configured with
RetryDelays == {DEFAULT_RETRY_DELAY, 16000}
\* values of Date.now() when the call is made
StartTimes == {5000}

\* client.ts:84: config.maxRetries ?? DEFAULT_MAX_RETRIES
ConfiguredMaxRetries == -1 .. MaxRetries

UtilIdle ==
    [fn |-> "none", done |-> FALSE, err |-> NoError, att |-> 0, base |-> 0,
     text |-> <<>>, at |-> 0, bool |-> FALSE, num |-> 0, prev |-> 0, calls |-> 0]

\* part_002:88-90 and the counters of the model before a call is made
InitLocals ==
    /\ pc = "idle"
    /\ attempt = 0
    /\ lastError = UndefinedError
    /\ delay = 0
    /\ result = NoData
    /\ thrown = NoError
    /\ lastResp = NoResp
    /\ fetches = 0
    /\ nRetryableFails = 0
    /\ only503 = TRUE
    /\ slept = 0
    /\ wt = WtIdle
    /\ orphans = 0

Init ==
    /\ maxRetries \in ConfiguredMaxRetries
    /\ retryDelay \in RetryDelays
    /\ now \in StartTimes
    /\ InitLocals
    /\ poll = NoPolls
    /\ server = "any"
    /\ calls = OneCall
    /\ sep = NoCreate
    /\ made = NotConstructed
    /\ util = UtilIdle

\* a client of a server that answers every status with a JSON object
InitLive ==
    /\ maxRetries \in ConfiguredMaxRetries
    /\ retryDelay \in RetryDelays
    /\ now \in StartTimes
    /\ InitLocals
    /\ poll = NoPolls
    /\ server = "plain"
    /\ calls = OneCall
    /\ sep = NoCreate
    /\ made = NotConstructed
    /\ util = UtilIdle

\* a client of a server that answers 200, 429 or 503 with Retry-After hints
InitHints ==
    /\ maxRetries \in ConfiguredMaxRetries
    /\ retryDelay \in RetryDelays
    /\ now \in StartTimes
    /\ InitLocals
    /\ poll = NoPolls
    /\ server = "hints"
    /\ calls = OneCall
    /\ sep = NoCreate
    /\ made = NotConstructed
    /\ util = UtilIdle

\* the last-attempt test of part_002:97 off by one
GivesUpEarly(error, att, maxR) == ~isRetryableError(error) \/ att >= maxR - 1

\* a timeout ending the whole call, whatever attempts remain
GivesUpOnTimeout(error, att, maxR) ==
    error.kind = "Timeout" \/ ~isRetryableError(error) \/ att = maxR

\* part_002:97: the catch block rethrows instead of retrying
GivesUp(error, att, maxR) == ~isRetryableError(error) \/ att = maxR

\* part_002:90-92: the loop test with loop variable att, then fn() -> fetch;
\* part_002:117: throw lastError when the loop is left
LoopHead(att) ==
    /\ attempt' = att
    /\ IF att <= maxRetries
           THEN /\ pc' = "inflight"
                /\ fetches' = fetches + 1
                /\ thrown' = thrown
                /\ wt' = WtStart
                /\ orphans' = InFlight(wt, orphans)
           ELSE /\ pc' = "failed"
                /\ fetches' = fetches
                /\ thrown' = lastError
                /\ UNCHANGED <<wt, orphans>>

\* part_002:92-114: the attempt's makeRequest settled with outcome
Settle(outcome) ==
    /\ attempt' = attempt
    /\ fetches' = fetches
    /\ IF outcome.ok
           THEN /\ pc' = "returned"
                /\ result' = outcome.data
                /\ UNCHANGED <<lastError, thrown, delay, slept, nRetryableFails>>
           ELSE /\ lastError' = outcome.error
                /\ result' = result
                /\ nRetryableFails' =
                       IF isRetryableError(outcome.error)
                           THEN nRetryableFails + 1 ELSE nRetryableFails
                /\ IF GivesUp(outcome.error, attempt, maxRetries)
                       THEN /\ pc' = "failed"
                            /\ thrown' = outcome.error
                            /\ UNCHANGED <<delay, slept>>
                       ELSE /\ pc' = "sleep"
                            /\ delay' = RetryDelayFor(outcome.error, attempt,
                                                      retryDelay, now)
                            /\ slept' = slept + 1
                            /\ thrown' = thrown

\* client.ts:211: request() calls retryWithBackoff, which enters its loop
CallRequest ==
    /\ pc = "idle"
    /\ calls.made < calls.limit
    /\ LoopHead(0)
    /\ calls' = FetchSent(
                    [calls EXCEPT !.made = @ + 1,
                                  !.request = BuildRequest(calls.endpoint,
                                                  calls.custom, calls.options)],
                    0, maxRetries)
    /\ UNCHANGED <<maxRetries, retryDelay, lastError, delay, result, now,
                   lastResp, nRetryableFails, only503, slept, poll, server,
                   sep, made, util>>

\* a further call that goes on with the attempt count of the call before
CallRequestAgainSharedCount ==
    /\ pc \in {"returned", "failed"}
    /\ calls.made < calls.limit
    /\ calls' = FetchSent(
                    [calls EXCEPT
                        !.made = @ + 1,
                        !.first = [pc |-> pc, fetches |-> fetches,
                                   thrown |-> thrown, result |-> result],
                        !.request = BuildRequest(calls.endpoint, calls.custom,
                                                 calls.options),
                        !.sent = <<>>],
                    attempt, maxRetries)
    /\ lastError' = UndefinedError
    /\ delay' = 0
    /\ result' = NoData
    /\ lastResp' = NoResp
    /\ LoopHead(attempt)
    /\ UNCHANGED <<maxRetries, retryDelay, now, nRetryableFails, only503,
                   slept, poll, server,
                   sep, made, util>>

\* client.ts:93-216, part_002:88-92: a further request call on the same
\* client, with the same arguments, after the call before it has ended; the
\* locals of request and retryWithBackoff are those of the new call
CallRequestAgain ==
    /\ pc \in {"returned", "failed"}
    /\ calls.made < calls.limit
    /\ calls' = FetchSent(
                    [calls EXCEPT
                        !.made = @ + 1,
                        !.first = [pc |-> pc, fetches |-> fetches,
                                   thrown |-> thrown, result |-> result],
                        !.request = BuildRequest(calls.endpoint, calls.custom,
                                                 calls.options),
                        !.sent = <<>>],
                    0, maxRetries)
    /\ attempt' = 0
    /\ lastError' = UndefinedError
    /\ delay' = 0
    /\ result' = NoData
    /\ lastResp' = NoResp
    /\ IF 0 <= maxRetries
           THEN /\ pc' = "inflight"
                /\ fetches' = fetches + 1
                /\ thrown' = NoError
                /\ wt' = WtStart
                /\ orphans' = InFlight(wt, orphans)
           ELSE /\ pc' = "failed"
                /\ fetches' = fetches
                /\ thrown' = UndefinedError
                /\ UNCHANGED <<wt, orphans>>
    /\ UNCHANGED <<maxRetries, retryDelay, now, nRetryableFails, only503,
                   slept, poll, server,
                   sep, made, util>>

\* client.ts:121-124: the awaited fetch resolves with a response, so
\* withTimeout resolves and clears its timer; makeRequest goes on to read the
\* body (client.ts:126-140)
FetchResolves ==
    /\ pc = "inflight"
    /\ \E resp \in Answers(server) :
        wt' = WtOpSettles(wt, "resolved", HeadOf(resp))
    /\ pc' = "reading"
    /\ UNCHANGED <<maxRetries, retryDelay, attempt, lastError, delay, result,
                   thrown, now, lastResp, fetches, nRetryableFails, only503,
                   slept, orphans, poll, server, calls,
                   sep, made, util>>

\* client.ts:136-185: response.json() / response.text() settles and
\* makeRequest handles the response
BodyRead ==
    /\ pc = "reading"
    /\ \E resp \in Answers(server) :
        /\ HeadOf(resp) = wt.outValue
        /\ lastResp' = resp
        /\ only503' = (only503 /\ resp.status = 503)
        /\ Settle(AfterWithTimeout([wt EXCEPT !.outValue = resp], now))
    /\ UNCHANGED <<maxRetries, retryDelay, now, wt, orphans, poll, server, calls,
                   sep, made, util>>

\* the awaited fetch rejects
FetchRejects ==
    /\ pc = "inflight"
    /\ \E error \in FetchRejections :
        /\ wt' = WtOpSettles(wt, "rejected", error)
        /\ lastResp' = NoResp
        /\ only503' = FALSE
        /\ Settle(AfterWithTimeout(wt', now))
    /\ UNCHANGED <<maxRetries, retryDelay, now, orphans, poll, server, calls,
                   sep, made, util>>

\* part_002:131: the timer of withTimeout fires before fetch settles
FetchTimesOut ==
    /\ pc = "inflight"
    /\ wt.timer = "pending"
    /\ wt' = WtTimerFires(wt)
    /\ lastResp' = NoResp
    /\ only503' = FALSE
    /\ Settle(AfterWithTimeout(wt', now))
    /\ UNCHANGED <<maxRetries, retryDelay, now, orphans, poll, server, calls,
                   sep, made, util>>

\* the fetch of an attempt that timed out settles after withTimeout did:
\* fetch is given no AbortSignal (client.ts:112-124), so it runs on
LateSettle ==
    /\ pc # "inflight"
    /\ wt.op = "pending"
    /\ \E how \in {"resolved", "rejected"} :
        wt' = WtOpSettles(wt, how, NoResp)
    /\ UNCHANGED <<maxRetries, retryDelay, pc, attempt, lastError, delay,
                   result, thrown, now, lastResp, fetches, nRetryableFails,
                   only503, slept, orphans, poll, server, calls,
                   sep, made, util>>

\* the fetch of an earlier attempt that timed out settles
OrphanSettles ==
    /\ orphans > 0
    /\ orphans' = orphans - 1
    /\ UNCHANGED <<maxRetries, retryDelay, pc, attempt, lastError, delay,
                   result, thrown, now, lastResp, fetches, nRetryableFails,
                   only503, slept, wt, poll, server, calls,
                   sep, made, util>>

\* the sleep followed by a repetition of the same attempt number
WakeSameAttempt ==
    /\ pc = "sleep"
    /\ now' = now + SleepTime(delay)
    /\ LoopHead(attempt)
    /\ calls' = FetchSent(calls, attempt, maxRetries)
    /\ UNCHANGED <<maxRetries, retryDelay, lastError, delay, result,
                   lastResp, nRetryableFails, only503, slept, poll, server,
                   sep, made, util>>

\* part_002:113, 90: sleep(delay) resolves, attempt++ and the loop goes on
Wake ==
    /\ pc = "sleep"
    /\ now' = now + SleepTime(delay)
    /\ LoopHead(attempt + 1)
    /\ calls' = FetchSent(calls, attempt + 1, maxRetries)
    /\ UNCHANGED <<maxRetries, retryDelay, lastError, delay, result,
                   lastResp, nRetryableFails, only503, slept, poll, server,
                   sep, made, util>>

Next ==
    \/ CallRequest
    \/ FetchResolves
    \/ BodyRead
    \/ FetchRejects
    \/ FetchTimesOut
    \/ Wake
    \/ LateSettle
    \/ OrphanSettles

Spec == Init /\ [][Next]_vars

\* Spec for a call whose attempts all get an outcome (the fetch settles or
\* its timer fires, a body being read arrives) and whose sleep timers fire
SpecLive ==
    /\ InitLive
    /\ [][Next]_vars
    /\ WF_vars(CallRequest)
    /\ WF_vars(FetchResolves \/ FetchRejects \/ FetchTimesOut)
    /\ WF_vars(BodyRead)
    /\ WF_vars(Wake)

\* SpecHints: one request call to the server that sends Retry-After hints
SpecHints == InitHints /\ [][Next]_vars

\* SpecCalls: two request calls made one after the other on one client,
\* with the same arguments, against a server that is up or answers 503
CallsMaxRetries == {0, 2}
CustomHeaders ==
    {<<>>, [k \in {"X-Custom-Header", "User-Agent", "Accept"} |-> "custom"],
     [k \in {"X-Custom-Header", "Content-Type"} |->
         IF k = "Content-Type" THEN "" ELSE "custom"]}
CallOptions ==
    {NoOptions,
     [method |-> "POST", body |-> "FormData", headers |-> <<>>],
     [method |-> "POST", body |-> "{}",
      headers |-> [k \in {"Accept", "Content-Type"} |-> "text/plain"]]}

InitCalls ==
    /\ maxRetries \in CallsMaxRetries
    /\ retryDelay = DEFAULT_RETRY_DELAY
    /\ now \in StartTimes
    /\ InitLocals
    /\ poll = NoPolls
    /\ server = "up"
    /\ \E custom \in CustomHeaders, opts \in CallOptions :
           calls = [OneCall EXCEPT !.limit = 2, !.custom = custom,
                                   !.options = opts]
    /\ sep = NoCreate
    /\ made = NotConstructed
    /\ util = UtilIdle

NextCalls == Next \/ CallRequestAgain

SpecCalls == InitCalls /\ [][NextCalls]_vars


-----------------------------------------------------------------------------
(* SpecUtil: the helpers exported by the package (part_001:18-25) applied  *)
(* to bounded inputs.  util records one helper, its arguments and what it  *)
(* returned; the variables of the request call stay as constructed.        *)

\* characters of the Retry-After texts
HeaderChars == {"0", "1", "5", "-", "+", " ", "x", "D"}
HeaderTexts == UNION {[1 .. n -> HeaderChars] : n \in 0 .. MaxLen}
\* values of Date.now() when parseRetryAfter runs
ParseTimes == {0, 3000, 20000}

\* base delays given to calculateBackoff
BaseDelays == {0, 1, DEFAULT_RETRY_DELAY, BACKOFF_CAP, 50000}

\* the errors of errors.ts as the client constructs them, and raw errors
TaxonomyErrors ==
    {NetworkError(c) : c \in {"TypeError", "SyntaxError", "Error"}}
    \cup {TimeoutError, AuthenticationError, ValidationError}
    \cup {RateLimitError(429, ra) : ra \in {0, 5000}}
    \cup {APIError(st, hd) : st \in 100 .. 599, hd \in {<<>>, <<"5">>}}
OtherErrors ==
    {RawError(nm, cd) : nm \in {"Error", "TypeError"},
                        cd \in RETRYABLE_ERROR_CODES \cup {"", "EPIPE"}}
    \cup {MkError("FileUpload", 0, "FILE_UPLOAD_ERROR", 0, <<>>, ""),
          MkError("Separation", 0, "SEPARATION_ERROR", 0, <<>>, "")}

UtilCalls ==
    {[UtilIdle EXCEPT !.fn = "isRetryableError", !.err = e] :
        e \in TaxonomyErrors \cup OtherErrors}
    \cup {[UtilIdle EXCEPT !.fn = "calculateBackoff", !.base = b] :
        b \in BaseDelays}
    \cup {[UtilIdle EXCEPT !.fn = "parseRetryAfter", !.text = h, !.at = t] :
        h \in HeaderTexts, t \in ParseTimes}

InitUtil ==
    /\ maxRetries = DEFAULT_MAX_RETRIES
    /\ retryDelay = DEFAULT_RETRY_DELAY
    /\ now = 0
    /\ InitLocals
    /\ poll = NoPolls
    /\ server = "any"
    /\ calls = OneCall
    /\ sep = NoCreate
    /\ made = NotConstructed
    /\ util \in UtilCalls

CallIsRetryableError ==
    /\ util.fn = "isRetryableError"
    /\ ~util.done
    /\ util' = [util EXCEPT !.done = TRUE, !.bool = isRetryableError(util.err)]
    /\ UNCHANGED reqVars

\* calculateBackoff is applied to attempt 0, 1, 2, ... in turn: after a call
\* num is its value at attempt att - 1 and prev its value at attempt att - 2
CallCalculateBackoff ==
    /\ util.fn = "calculateBackoff"
    /\ util.att <= MaxAttempt
    /\ util' = [util EXCEPT !.done = TRUE,
                            !.num = calculateBackoff(util.att, util.base),
                            !.prev = util.num,
                            !.att = util.att + 1,
                            !.calls = util.calls + 1]
    /\ UNCHANGED reqVars

CallParseRetryAfter ==
    /\ util.fn = "parseRetryAfter"
    /\ ~util.done
    /\ util' = [util EXCEPT !.done = TRUE,
                            !.num = parseRetryAfter(util.text, util.at)]
    /\ UNCHANGED reqVars

NextUtil == CallIsRetryableError \/ CallCalculateBackoff \/ CallParseRetryAfter

SpecUtil == InitUtil /\ [][NextUtil]_vars

-----------------------------------------------------------------------------
(* SpecPoll: one waitForSeparation call; SpecPoll2: two calls running      *)
(* concurrently, each polling its own job.  getSeparation (client.ts:444)  *)
(* is one request call: it resolves with the body of the answer or rejects *)
(* with the error request throws.  now is the clock the sessions share.    *)

MaxJobLen == 3
MaxClock == 40

\* status sequences of a job as successive status requests see them, up to
\* its first terminal status; the last status is reported from then on
JobSeqs ==
    {job \in UNION {[1 .. n -> JobStatuses] : n \in 1 .. MaxJobLen} :
        \A i \in 1 .. Len(job) - 1 : job[i] \notin TerminalStatuses}

\* the jobs of two concurrent sessions
ConcurrentJobs ==
    {<<"waiting", "processing", "done">>, <<"processing", "error">>,
     <<"processing">>}

\* options.interval and options.maxDuration of the calls, in ms
PollIntervals == {10}
PollMaxDurations == {0, 20}
\* advance of the clock between two events, in ms
ClockSteps == {10}

\* errors a getSeparation call rejects with
StatusFetchErrors == {NetworkError(""), APIError(404, <<>>)}

PollConfigs(s, jobs, callbacks) ==
    {[PollIdle(s) EXCEPT !.job = job, !.hasCb = cb, !.optInterval = i,
                         !.optMaxDuration = d] :
        job \in jobs, cb \in callbacks, i \in PollIntervals,
        d \in PollMaxDurations}

clientVars ==
    <<maxRetries, retryDelay, pc, attempt, lastError, delay, result, thrown,
      lastResp, fetches, nRetryableFails, only503, slept, wt, orphans, server,
      calls, made, util>>

callVars == <<clientVars, sep>>

InitCall ==
    /\ maxRetries = DEFAULT_MAX_RETRIES
    /\ retryDelay = DEFAULT_RETRY_DELAY
    /\ now = 0
    /\ InitLocals
    /\ server = "any"
    /\ calls = OneCall
    /\ sep = NoCreate
    /\ made = NotConstructed
    /\ util = UtilIdle

InitPoll ==
    /\ InitCall
    /\ \E p \in PollConfigs(1, JobSeqs, BOOLEAN) :
           poll = [NoPolls EXCEPT ![1] = p]

InitPoll2 ==
    /\ InitCall
    /\ \E p1 \in PollConfigs(1, ConcurrentJobs, {TRUE}),
          p2 \in PollConfigs(2, ConcurrentJobs, {TRUE}) :
           poll = [NoPolls EXCEPT ![1] = p1, ![2] = p2]

\* client.ts:471-488: the call is made and runs up to its first await
CallWaitForSeparation(s) ==
    /\ poll[s].pc = "idle"
    /\ poll' = [poll EXCEPT ![s] = PollLoopTop(PollStart(poll[s], now), now)]
    /\ UNCHANGED <<callVars, now>>

\* a status request answered with the status of the other session's job
StatusArrivesCrossed(s) ==
    /\ poll[s].pc = "fetching"
    /\ \E throws \in BOOLEAN :
        LET st == ServerStatus(poll[3 - s].job, poll[s].hash, poll[s].fetches)
        IN  poll' = [poll EXCEPT ![s] =
                        OnStatus([poll[s] EXCEPT !.seen = Append(@, st)],
                                 st, throws, now)]
    /\ UNCHANGED <<callVars, now>>

\* client.ts:488-514: getSeparation resolves and the loop body runs up to
\* its next await, return or throw
StatusArrives(s) ==
    /\ poll[s].pc = "fetching"
    /\ \E throws \in BOOLEAN :
        LET st == ServerStatus(poll[s].job, poll[s].hash, poll[s].fetches)
        IN  poll' = [poll EXCEPT ![s] =
                        OnStatus([poll[s] EXCEPT !.seen = Append(@, st)],
                                 st, throws, now)]
    /\ UNCHANGED <<callVars, now>>

\* client.ts:488: getSeparation rejects
StatusFails(s) ==
    /\ poll[s].pc = "fetching"
    /\ \E error \in StatusFetchErrors :
        poll' = [poll EXCEPT ![s] = OnStatusFailure(poll[s], error)]
    /\ UNCHANGED <<callVars, now>>

\* client.ts:513, 480-488: sleep(interval) resolves and the loop goes on
WakePoll(s) ==
    /\ poll[s].pc = "sleeping"
    /\ now - poll[s].sleepStart >= SleepTime(poll[s].interval)
    /\ poll' = [poll EXCEPT ![s] = PollLoopTop(poll[s], now)]
    /\ UNCHANGED <<callVars, now>>

\* time passes
Tick ==
    /\ now < MaxClock
    /\ \E d \in ClockSteps : now' = now + d
    /\ UNCHANGED <<callVars, poll>>

SessionStep(s) ==
    \/ CallWaitForSeparation(s)
    \/ StatusArrives(s)
    \/ StatusFails(s)
    \/ WakePoll(s)

NextPoll == SessionStep(1) \/ Tick

SpecPoll == InitPoll /\ [][NextPoll]_vars

NextPoll2 == (\E s \in Sessions : SessionStep(s)) \/ Tick

SpecPoll2 == InitPoll2 /\ [][NextPoll2]_vars

\* SpecPollLive: one session in which every status request completes, time
\* advances and every sleep ends.  The clock of the model stops at MaxClock;
\* a sleep under way then ends at some later time, and a deadline that had
\* passed at MaxClock has passed at that time too
WakeLate(s) ==
    /\ poll[s].pc = "sleeping"
    /\ now >= MaxClock
    /\ DeadlinePassed(poll[s], now)
    /\ poll' = [poll EXCEPT ![s] = PollLoopTop(poll[s], now)]
    /\ UNCHANGED <<callVars, now>>

NextPollLive == NextPoll \/ WakeLate(1)

SpecPollLive ==
    /\ InitPoll
    /\ [][NextPollLive]_vars
    /\ WF_vars(StatusArrives(1) \/ StatusFails(1))
    /\ WF_vars(WakePoll(1) \/ WakeLate(1))
    /\ WF_vars(Tick)

\* SpecCreate: one createSeparation or createAndWaitForSeparation call; the
\* latter polls as session 1
InitCreate ==
    /\ InitCall
    /\ \E p \in PollConfigs(1, ConcurrentJobs, {TRUE}) :
           poll = [NoPolls EXCEPT ![1] = p]

\* client.ts:404-415, 534-538: the call is made and awaits request
CallCreateSeparation ==
    /\ sep.pc = "idle"
    /\ \E w \in BOOLEAN : sep' = [sep EXCEPT !.pc = "creating", !.wait = w]
    /\ UNCHANGED <<clientVars, poll, now>>

\* client.ts:411-423, 538-539: request resolves; createAndWaitForSeparation
\* goes on with waitForSeparation when createSeparation returned
CreateResolves ==
    /\ sep.pc = "creating"
    /\ \E resp \in CreateResponses :
        LET c == CreateOnResponse(sep, resp)
        IN  /\ sep' = c
            /\ poll' = IF c.pc = "returned" /\ c.wait
                           THEN [poll EXCEPT
                                    ![1] = StartWait(poll[1], c.hash, now)]
                           ELSE poll
    /\ UNCHANGED <<clientVars, now>>

\* client.ts:424-429, 538: request rejects
CreateFails ==
    /\ sep.pc = "creating"
    /\ \E error \in CreateFailures : sep' = CreateOnFailure(sep, error)
    /\ UNCHANGED <<clientVars, poll, now>>

NextCreate ==
    \/ CallCreateSeparation
    \/ CreateResolves
    \/ CreateFails
    \/ StatusArrives(1)
    \/ StatusFails(1)
    \/ WakePoll(1)
    \/ Tick

SpecCreate == InitCreate /\ [][NextCreate]_vars

\* SpecNew: one constructor call
ConfigTokens == {<<>>, <<"">>, <<"token">>}
ConfigURLs == {<<>>, <<"">>, <<"http://localhost">>}
ConfigNumbers == {<<>>, <<0>>, <<5>>}
ConfigHeaders == {<<>>, <<[k \in {"X-Custom-Header"} |-> "custom"]>>}

Configs ==
    [apiToken : ConfigTokens, baseURL : ConfigURLs, timeout : ConfigNumbers,
     maxRetries : ConfigNumbers, retryDelay : ConfigNumbers,
     customHeaders : ConfigHeaders]

InitNew ==
    /\ maxRetries = DEFAULT_MAX_RETRIES
    /\ retryDelay = DEFAULT_RETRY_DELAY
    /\ now = 0
    /\ InitLocals
    /\ poll = NoPolls
    /\ server = "any"
    /\ calls = OneCall
    /\ sep = NoCreate
    /\ \E cfg \in Configs : made = [NotConstructed EXCEPT !.config = cfg]
    /\ util = UtilIdle

\* client.ts:76-88: new MVSEPClient(config)
CallConstructor ==
    /\ made.pc = "new"
    /\ made' = Construct(made)
    /\ UNCHANGED <<maxRetries, retryDelay, pc, attempt, lastError, delay,
                   result, thrown, now, lastResp, fetches, nRetryableFails,
                   only503, slept, wt, orphans, poll, server, calls, sep,
                   util>>

NextNew == CallConstructor

SpecNew == InitNew /\ [][NextNew]_vars

-----------------------------------------------------------------------------
(* Properties of one request call (Spec) *)

Done == pc \in {"returned", "failed"}

\* C1: with maxRetries = N >= 0 a request issues at most N+1 fetches, and a
\* request whose every attempt failed with a retryable error has issued
\* exactly N+1 fetches and has failed.
C1_AttemptsBounded ==
    maxRetries >= 0 =>
        /\ fetches <= maxRetries + 1
        /\ (Done /\ nRetryableFails = fetches) =>
               /\ fetches = maxRetries + 1
               /\ pc = "failed"
               /\ thrown.kind \notin {"none", "undefined"}

C1_Witness ==
    /\ maxRetries >= 2
    /\ pc = "failed"
    /\ nRetryableFails = fetches
    /\ fetches = maxRetries + 1

\* C2: when k attempts (k <= maxRetries) failed with retryable errors and the
\* next one succeeds, the request has made exactly k+1 fetches, returns the
\* parsed body of that last response and rejects with nothing; once it has a
\* result it makes no further attempt.
C2_SuccessAfterRetries ==
    /\ pc = "returned" =>
           /\ fetches = nRetryableFails + 1
           /\ nRetryableFails <= maxRetries
           /\ ResponseOk(lastResp)
           /\ result = ParseBody(lastResp).data
           /\ result # NoData
           /\ thrown = NoError
    /\ result # NoData => pc = "returned"

C2_Witness ==
    /\ pc = "returned"
    /\ nRetryableFails = 2
    /\ fetches = 3
    /\ lastError.kind = "API"

\* C3 as stated: with maxRetries = 2 and a server answering 503, 503, 503 and
\* then 200, the finished request has made exactly 3 fetches and has returned
\* the payload of the 200 response.
C3_Original ==
    (maxRetries = 2 /\ only503 /\ Done) =>
        /\ fetches = 3
        /\ pc = "returned"
        /\ lastResp.status = 200
        /\ result = ParseBody(lastResp).data

\* C3 as amended: with maxRetries = 2 and a server answering 503, 503, 503 and
\* then 200, the finished request has made exactly 3 fetches, all answered
\* 503, and has failed with the error of the third attempt; it has no result.
C3_ThreeAttemptsThenFails ==
    (maxRetries = 2 /\ only503 /\ Done) =>
        /\ fetches = 3
        /\ pc = "failed"
        /\ lastResp.status = 503
        /\ thrown = lastError
        /\ thrown.kind \in {"API", "Network"}
        /\ (thrown.kind = "API" => thrown.status = 503)
        /\ result = NoData

C3_Witness ==
    /\ maxRetries = 2
    /\ only503
    /\ pc = "failed"
    /\ fetches = 3
    /\ thrown.kind = "API"
    /\ thrown.status = 503

\* C4: whenever the latest attempt received a 2xx status, the request has
\* returned: no error was raised, it is not sleeping before a retry and no
\* later attempt is in flight, whatever the body of the response is.
C4_SuccessStatusEnds ==
    ResponseOk(lastResp) => (pc = "returned" /\ thrown = NoError)

\* the non-retryable errors C5 names
NonRetryableKind(e) ==
    \/ e.kind \in {"Authentication", "Validation"}
    \/ e.kind = "API" /\ e.status \notin {408, 429, 500, 502, 503, 504}

\* C5: an attempt that failed with a non-retryable error ends the request
\* with that error, with no sleep after it and no further fetch; and a 400
\* response ends the request with a Validation error (after 1 fetch when it
\* answers the first attempt).
C5_NonRetryableStops ==
    /\ NonRetryableKind(lastError) =>
           /\ pc = "failed"
           /\ thrown = lastError
           /\ fetches = nRetryableFails + 1
           /\ slept = nRetryableFails
    /\ lastResp.status = 400 =>
           /\ pc = "failed"
           /\ thrown.kind = "Validation"
           /\ (nRetryableFails = 0 => fetches = 1)

\* The first half of C5 alone: it holds of the code.
NonRetryablePropagates ==
    NonRetryableKind(lastError) =>
        /\ pc = "failed"
        /\ thrown = lastError
        /\ fetches = nRetryableFails + 1
        /\ slept = nRetryableFails

\* the error kind C7 assigns to a non-2xx status
KindForStatus(st) ==
    IF st = 429 THEN "RateLimit"
    ELSE IF st \in {401, 403} THEN "Authentication"
    ELSE IF st \in {400, 422} THEN "Validation"
    ELSE "API"

\* C7: after an attempt that received a non-2xx response, the error of that
\* attempt has the kind its status gives, whatever the body: RateLimit for 429
\* (carrying the parsed Retry-After), Authentication for 401/403, Validation
\* for 400/422, and otherwise an API error carrying the status.
C7_StatusDeterminesKind ==
    (lastResp # NoResp /\ ~ResponseOk(lastResp)) =>
        /\ lastError.kind = KindForStatus(lastResp.status)
        /\ (lastResp.status = 429 /\ pc \in {"sleep", "failed"}) =>
               lastError.retryAfter = parseRetryAfter(lastResp.retryAfter, now)
        /\ lastError.kind = "API" => lastError.status = lastResp.status

\* a Retry-After text that holds a value: integer seconds or an HTTP date
HoldsRetryAfter(h) == ParseInt10(h) # NaN \/ DateGetTime(h) # NaN

\* C8: while the loop sleeps after failed attempt k, the delay is the
\* Retry-After value of the failed response when it carried one, and
\* otherwise min(retryDelay * 2^k, 32000).  Stated for the attempts that got
\* no response or whose error has the kind of the response's status, so
\* that a response turned into a Network error by its body is not counted.
C8_DelaySelection ==
    (/\ pc = "sleep"
     /\ (lastResp = NoResp \/ lastError.kind = KindForStatus(lastResp.status))) =>
        delay = IF HoldsRetryAfter(lastResp.retryAfter)
                    THEN parseRetryAfter(lastResp.retryAfter, now)
                    ELSE IF retryDelay * (2 ^ attempt) <= 32000
                        THEN retryDelay * (2 ^ attempt)
                        ELSE 32000

\* Without Retry-After header on the failed response, and for a fetch that
\* got no response, the delay is the capped exponential backoff (1000, 2000,
\* 4000 ms with the default retryDelay): this part of C8 holds of the code.
BackoffWithoutHeader ==
    (pc = "sleep" /\ lastResp.retryAfter = <<>>) =>
        /\ delay = IF retryDelay * (2 ^ attempt) <= 32000
                       THEN retryDelay * (2 ^ attempt)
                       ELSE 32000
        /\ retryDelay = 1000 => delay = <<1000, 2000, 4000, 8000, 16000>>[attempt + 1]

-----------------------------------------------------------------------------
(* Properties of the helpers (SpecUtil) *)

TaxonomyKinds ==
    {"Network", "Timeout", "RateLimit", "Authentication", "Validation", "API"}

\* C6: applied to an error of the taxonomy, isRetryableError returns true
\* exactly when the error is a Network, Timeout or RateLimit error or an API
\* error with status 408, 429, 500, 502, 503 or 504; so it returns false for
\* Authentication and Validation errors and API errors of any other status.
C6_RetryableKinds ==
    (util.fn = "isRetryableError" /\ util.done
        /\ util.err.kind \in TaxonomyKinds) =>
        util.bool =
            (\/ util.err.kind \in {"Network", "Timeout", "RateLimit"}
             \/ /\ util.err.kind = "API"
                /\ util.err.status \in {408, 429, 500, 502, 503, 504})

C6_Witness ==
    /\ util.fn = "isRetryableError"
    /\ util.done
    /\ util.err.kind = "API"
    /\ util.err.status = 504
    /\ util.bool

\* C9: every value calculateBackoff returns is at most 32000, and its value
\* at attempt a+1 is at least its value at attempt a, for every base >= 0.
C9_BackoffMonotoneCapped ==
    (util.fn = "calculateBackoff" /\ util.base >= 0) =>
        /\ util.calls >= 1 => LeqJS(util.num, 32000)
        /\ util.calls >= 2 => LeqJS(util.prev, util.num)

\* C9 restricted to the calls in which 0 * Infinity does not arise (a
\* positive base, or an attempt below 1024): this holds of the code.
BackoffMonotoneCappedFinite ==
    (util.fn = "calculateBackoff" /\ util.base >= 0
        /\ (util.base > 0 \/ util.att <= POW_OVERFLOW_EXP)) =>
        /\ util.calls >= 1 => LeqJS(util.num, 32000)
        /\ util.calls >= 2 => LeqJS(util.prev, util.num)

\* a text that is an optional sign followed by decimal digits and nothing else
IsIntegerText(h) ==
    LET body == IF h # <<>> /\ Head(h) \in {"-", "+"} THEN Tail(h) ELSE h
    IN  body # <<>> /\ \A i \in 1 .. Len(body) : body[i] \in DigitChars

\* the integer such a text denotes
IntegerOf(h) ==
    IF Head(h) = "-" THEN 0 - DigitsValue(Tail(h))
    ELSE IF Head(h) = "+" THEN DigitsValue(Tail(h))
    ELSE DigitsValue(h)

\* a text that is an HTTP date ("D" and the digits of its time in seconds)
IsHttpDate(h) ==
    Len(h) >= 2 /\ h[1] = "D" /\ \A i \in 2 .. Len(h) : h[i] \in DigitChars

\* the time of such a date, in milliseconds
TimeOf(h) == 1000 * DigitsValue(Tail(h))

\* a text from which neither a number nor a date can be read: it does not
\* start (after blanks and a sign) with a digit, and it is no HTTP date
IsUnparseable(h) ==
    LET t == SkipWhitespace(h)
        u == IF t # <<>> /\ Head(t) \in {"-", "+"} THEN Tail(t) ELSE t
    IN  /\ h # <<>>
        /\ ~(u # <<>> /\ Head(u) \in DigitChars)
        /\ ~IsHttpDate(h)

-----------------------------------------------------------------------------
(* Properties of withTimeout as request uses it (Spec) *)

WtSettled == wt.out \in {"resolved", "rejected"}

\* C11: withTimeout settles exactly once with whichever happens first: the
\* result or error of the wrapped operation if that settles first, a Timeout
\* error if the timer fires first; a later completion of the operation
\* changes nothing (once the body of a response is read, the outcome of the
\* request does not change either).
C11_SettlesOnceFirstWins ==
    /\ [](/\ wt.out = "resolved" =>
                 /\ wt.op = "resolved"
                 /\ wt.outValue = wt.opValue
                 /\ wt.timer # "fired"
          /\ (wt.out = "rejected" /\ wt.timer # "fired") =>
                 /\ wt.op = "rejected"
                 /\ wt.outValue = wt.opValue
          /\ wt.timer = "fired" =>
                 /\ wt.out = "rejected"
                 /\ wt.outValue = TimeoutError)
    /\ [][(WtSettled /\ fetches' = fetches) =>
              /\ wt'.out = wt.out
              /\ wt'.outValue = wt.outValue
              /\ pc # "reading" => (thrown' = thrown /\ result' = result)]_vars

\* the operation completed after the timer had fired
C11_Witness ==
    /\ wt.timer = "fired"
    /\ wt.op = "resolved"
    /\ wt.outValue = TimeoutError
    /\ lastError.kind = "Timeout"

\* C12: once withTimeout has settled, the timer it created is cancelled or
\* has already fired.
C12_NoPendingTimer == WtSettled => wt.timer \in {"cleared", "fired"}

\* the operation won the race and the timer was cancelled
C12_Witness ==
    /\ wt.out = "resolved"
    /\ wt.op = "resolved"
    /\ wt.timer = "cleared"

\* C13: at most one network call of a request is in flight at any time, also
\* after an attempt that ended by timeout.
C13_OneAttemptInFlight == InFlight(wt, orphans) <= 1

-----------------------------------------------------------------------------
(* Properties of waitForSeparation (SpecPoll, SpecPoll2) *)

Last(q) == q[Len(q)]

\* the i-th status request of session s was answered with its job's i-th
\* status
SeesOwnJob(s) ==
    \A i \in 1 .. Len(poll[s].seen) :
        poll[s].seen[i] = ServerStatus(poll[s].job, HashOf(s), i)

\* C14: waitForSeparation returns only with a status whose state is done,
\* and returns exactly the last status fetched; when the k-th status fetched
\* is the first terminal one, exactly k status fetches are issued (3 for
\* waiting, processing, done).
C14_ReturnsDoneAfterKFetches ==
    \A s \in Sessions :
        LET p == poll[s]
        IN  /\ SeesOwnJob(s)
            /\ p.pc = "returned" =>
                   /\ p.seen # <<>>
                   /\ Last(p.seen).status = "done"
                   /\ p.result = Last(p.seen)
                   /\ p.thrown = NoError
            /\ \A k \in 1 .. Len(p.seen) :
                   p.seen[k].status \in TerminalStatuses =>
                       /\ p.fetches = k
                       /\ p.pc \in {"returned", "failed"}
            /\ (p.pc = "returned"
                /\ p.job = <<"waiting", "processing", "done">>) =>
                   p.fetches = 3

\* waiting, processing, done: returned after the third fetch
C14_Witness ==
    /\ poll[1].pc = "returned"
    /\ poll[1].job = <<"waiting", "processing", "done">>
    /\ poll[1].fetches = 3
    /\ poll[1].result.status = "done"

NonTerminalSeen(p) ==
    {i \in 1 .. Len(p.seen) : p.seen[i].status \notin TerminalStatuses}

\* C16 as stated: the progress callback is invoked once for each fetched
\* non-terminal status and never for a done or error status; twice for
\* waiting, processing, done.
C16_Original ==
    \A s \in Sessions :
        LET p == poll[s]
        IN  (p.hasCb /\ p.pc # "fetching") =>
                /\ \A i \in 1 .. Len(p.log) :
                       p.log[i].status \notin TerminalStatuses
                /\ Len(p.log) = Cardinality(NonTerminalSeen(p))

\* C16: the progress callback, when given, is invoked exactly once for each
\* fetched status, the terminal ones included; three times for waiting,
\* processing, done, the last time with done.
C16_CallbackPerStatus ==
    \A s \in Sessions :
        LET p == poll[s]
        IN  /\ Len(p.log) = IF p.hasCb THEN Len(p.seen) ELSE 0
            /\ \A i \in 1 .. Len(p.log) : p.log[i].status = p.seen[i].status
            /\ (p.hasCb /\ p.pc = "returned"
                /\ p.job = <<"waiting", "processing", "done">>) =>
                   /\ Len(p.log) = 3
                   /\ p.log[3].status = "done"

\* the callback was invoked with done before the call returned
C16_Witness ==
    /\ poll[1].hasCb
    /\ poll[1].pc = "returned"
    /\ poll[1].job = <<"waiting", "processing", "done">>
    /\ Len(poll[1].log) = 3
    /\ poll[1].log[3].status = "done"

\* C17: the progress callback is called on each poll: once for every status
\* fetch that returns a status, terminal or not, with the job hash and that
\* fetch's status and data.
C17_CallbackOnEachPoll ==
    \A s \in Sessions :
        LET p == poll[s]
        IN  p.hasCb =>
                p.log = [i \in 1 .. Len(p.seen) |->
                            [hash |-> HashOf(s),
                             status |-> p.seen[i].status,
                             data |-> p.seen[i].data]]

\* the callback was called for a non-terminal status and for the error
\* status that ended the session
C17_Witness ==
    /\ poll[1].hasCb
    /\ poll[1].pc = "failed"
    /\ poll[1].thrown.kind = "Separation"
    /\ Len(poll[1].log) = 2
    /\ poll[1].log[2] = [hash |-> HashOf(1), status |-> "error",
                         data |-> [hash |-> HashOf(1), seq |-> 2]]

\* the job of p never reports a terminal status
NeverTerminal(p) == \A i \in 1 .. Len(p.job) : p.job[i] \notin TerminalStatuses

\* C18: the elapsed time since the start of the session is checked before
\* each poll: a status fetch is issued only while it does not exceed
\* maxDuration, and a check that finds it exceeded fails the call with a
\* TimeoutError without a further fetch; a job that never leaves its
\* non-terminal statuses never makes the call return, and once its polls
\* pass the deadline the call ends in a TimeoutError.
C18_DeadlineBeforeEachPoll ==
    /\ [](\A s \in Sessions :
            LET p == poll[s]
            IN  /\ NeverTerminal(p) => p.pc # "returned"
                /\ (/\ NeverTerminal(p)
                    /\ p.pc = "failed"
                    /\ p.thrown \notin StatusFetchErrors \cup {CallbackError})
                       =>
                       /\ p.thrown = TimeoutError
                       /\ now - p.startTime > p.maxDuration)
    /\ [][\A s \in Sessions :
            LET p == poll[s]
                q == poll'[s]
            IN  /\ q.fetches > p.fetches =>
                       now - q.startTime <= q.maxDuration
                /\ (/\ p.pc = "sleeping"
                    /\ q # p
                    /\ now - p.startTime > p.maxDuration) =>
                       /\ q.pc = "failed"
                       /\ q.thrown = TimeoutError
                       /\ q.fetches = p.fetches
                /\ p.pc = "failed" => q = p]_vars

\* a job that stays in processing: polled twice, then the deadline check
\* ended the call
C18_Witness ==
    /\ poll[1].pc = "failed"
    /\ poll[1].thrown = TimeoutError
    /\ poll[1].job = <<"processing">>
    /\ poll[1].fetches >= 2
    /\ now - poll[1].startTime > poll[1].maxDuration

\* C19: within one session status fetches never overlap and events follow
\* poll order: a fetch starts only after the previous one has completed, its
\* progress callback has returned and the interval sleep has finished, and
\* the i-th callback carries the status of the i-th fetch.
C19_SequentialPolls ==
    /\ [](\A s \in Sessions :
            LET p == poll[s]
            IN  /\ p.fetches - Len(p.seen) \in {0, 1}
                /\ p.fetches - Len(p.seen) = 1 =>
                       \/ p.pc = "fetching"
                       \/ p.pc = "failed" /\ p.thrown \in StatusFetchErrors
                /\ \A i \in 1 .. Len(p.log) :
                       /\ p.log[i].status = p.seen[i].status
                       /\ p.log[i].data = p.seen[i].data
                       /\ p.log[i].data.seq = i)
    /\ [][\A s \in Sessions :
            LET p == poll[s]
                q == poll'[s]
            IN  q.fetches > p.fetches =>
                    /\ q.fetches = p.fetches + 1
                    /\ Len(p.seen) = p.fetches
                    /\ p.hasCb => Len(p.log) = p.fetches
                    /\ p.fetches > 0 =>
                           /\ p.pc = "sleeping"
                           /\ now - p.sleepStart >= p.interval]_vars

\* the third fetch is under way after two callbacks and two sleeps
C19_Witness ==
    /\ poll[1].pc = "fetching"
    /\ poll[1].hasCb
    /\ poll[1].fetches = 3
    /\ Len(poll[1].log) = 2
    /\ now - poll[1].startTime >= 2 * poll[1].interval

\* C20: two sessions running concurrently do not affect each other: each
\* session's fetches, callbacks and outcome are those of its own job, own
\* hash and own deadline, and a step of one session leaves the other as it
\* was.
C20_SessionsIndependent ==
    /\ [](\A s \in Sessions :
            LET p == poll[s]
            IN  /\ SeesOwnJob(s)
                /\ p.hash = HashOf(s)
                /\ p.log = [i \in 1 .. Len(p.log) |->
                               ProgressOf(p, ServerStatus(p.job, HashOf(s), i))]
                /\ Len(p.log) = IF p.hasCb THEN Len(p.seen) ELSE 0
                /\ p.pc = "returned" =>
                       /\ p.result = ServerStatus(p.job, HashOf(s), p.fetches)
                       /\ p.result.status = "done"
                /\ (p.pc = "failed" /\ p.thrown.kind = "Separation") =>
                       /\ p.thrown.hash = HashOf(s)
                       /\ ServerStatus(p.job, HashOf(s), p.fetches).status
                              = "error"
                /\ (p.pc = "failed" /\ p.thrown.kind = "Timeout") =>
                       now - p.startTime > p.maxDuration)
    /\ [][\A s \in Sessions :
            poll'[s] # poll[s] =>
                \A t \in Sessions \ {s} : poll'[t] = poll[t]]_vars

\* both sessions polled to the end of their different jobs; the second
\* started while the first, which needs two sleeps, was under way
C20_Witness ==
    /\ poll[1].pc = "returned"
    /\ poll[1].job = <<"waiting", "processing", "done">>
    /\ poll[1].startTime = 0
    /\ poll[2].pc = "failed"
    /\ poll[2].thrown.kind = "Separation"
    /\ poll[2].job = <<"processing", "error">>
    /\ poll[2].startTime = 10


-----------------------------------------------------------------------------
(* Two request calls on one client (SpecCalls) *)

\* the attempts made so far by the call under way
AttemptsOfCall == Len(calls.sent)

\* C21: retry state is per call: when every fetch of two calls with the same
\* arguments is answered 200, each call makes exactly one attempt and returns
\* the payload; and whatever the first call used up, the second call has all
\* its maxRetries + 1 attempts before it fails with a retryable error.
C21_RetryStatePerCall ==
    /\ AttemptsOfCall <= maxRetries + 1
    /\ (calls.made = 2 /\ pc = "failed" /\ isRetryableError(thrown))
           => AttemptsOfCall = maxRetries + 1
    /\ (calls.made = 2 /\ Done /\ nRetryableFails = 0)
           => /\ calls.first.pc = "returned"
              /\ pc = "returned"
              /\ calls.first.fetches = 1
              /\ AttemptsOfCall = 1
              /\ fetches = 2
              /\ lastResp.status = 200
              /\ result = ParseBody(lastResp).data
              /\ calls.first.result = result

\* both calls answered 200 at once; and, on another run, the first call used
\* its three attempts up and the second still made three
C21_Witness ==
    /\ calls.made = 2
    /\ Done
    /\ nRetryableFails = 0
    /\ fetches = 2

C21_WitnessExhausted ==
    /\ calls.made = 2
    /\ calls.first.pc = "failed"
    /\ calls.first.fetches = 3
    /\ pc = "failed"
    /\ AttemptsOfCall = 3

-----------------------------------------------------------------------------
(* Properties of createSeparation and createAndWaitForSeparation           *)
(* (SpecCreate)                                                            *)

\* C22: createAndWaitForSeparation is createSeparation followed by
\* waitForSeparation: a status fetch is issued only once createSeparation
\* has returned a hash, every status fetch is made for that hash, and when
\* createSeparation fails the call fails with that error and no status fetch
\* is ever issued.
C22_CreateThenPoll ==
    /\ poll[1].fetches > 0
           => /\ sep.wait
              /\ sep.pc = "returned"
              /\ Truthy(sep.hash)
              /\ poll[1].hash = sep.hash
              /\ \A i \in 1 .. Len(poll[1].seen) :
                     poll[1].seen[i].data.hash = sep.hash
    /\ sep.pc \in {"idle", "creating", "failed"}
           => /\ poll[1].pc = "idle"
              /\ poll[1].fetches = 0
    /\ sep.pc = "failed" => sep.thrown # NoError
    /\ (sep.pc = "returned" /\ sep.wait) => poll[1].pc # "idle"

\* the hash came in the data of the create response and the job was polled
\* three times, to its end
C22_Witness ==
    /\ sep.wait
    /\ sep.hash = HashOf(2)
    /\ poll[1].pc = "returned"
    /\ Len(poll[1].seen) = 3

-----------------------------------------------------------------------------
(* Further properties of one request call (Spec, SpecLive) *)

\* the outcome of the attempt made last: of the response it read, if its
\* fetch resolved, else of the rejection of its withTimeout
OfLatestAttempt ==
    IF wt.out = "resolved"
        THEN HandleResponse(lastResp, now)
        ELSE HandleRejection(wt.outValue)

\* C23: when the retries are used up the caller gets the error of the final
\* attempt, right after that attempt: attempt number maxRetries has been
\* made, and one delay was slept before each attempt but the first and none
\* after the last.
C23_ExhaustedThrowsFinalError ==
    (pc = "failed" /\ maxRetries >= 0 /\ isRetryableError(thrown))
        => /\ attempt = maxRetries
           /\ fetches = maxRetries + 1
           /\ slept = maxRetries
           /\ nRetryableFails = maxRetries + 1
           /\ wt.out \in {"resolved", "rejected"}
           /\ wt.out = "resolved" => HeadOf(lastResp) = wt.outValue
           /\ ~OfLatestAttempt.ok
           /\ thrown = OfLatestAttempt.error
           /\ thrown = lastError

\* three attempts, the last answered 503 and an earlier one not: the error
\* thrown is the API error of the 503
C23_Witness ==
    /\ pc = "failed"
    /\ maxRetries = 2
    /\ attempt = 2
    /\ ~only503
    /\ lastResp.status = 503
    /\ thrown = APIError(503, lastResp.retryAfter)


\* a create response holds a hash when its hash property, or else the hash
\* property of its data object, is a non-empty value
HoldsHash(resp) ==
    \/ resp.type = "object" /\ Truthy(resp.hash)
    \/ resp.type = "object" /\ resp.data.type = "object"
           /\ Truthy(resp.data.hash)

\* C24: createSeparation returns a hash only when the create response
\* contains one (the top-level hash, else data.hash); when the response
\* contains neither it fails with a Separation error; it never returns an
\* empty or undefined hash.
C24_HashOrSeparationError ==
    /\ sep.pc = "returned"
           => /\ HoldsHash(sep.response)
              /\ Truthy(sep.hash)
              /\ sep.hash = IF Truthy(sep.response.hash)
                                THEN sep.response.hash
                                ELSE sep.response.data.hash
    /\ (sep.pc = "failed" /\ sep.response.type # "none"
            /\ ~HoldsHash(sep.response))
           => sep.thrown.kind = "Separation"

-----------------------------------------------------------------------------
(* Property of the constructor (SpecNew) *)

\* the config gives an apiToken that is not the empty string
HasToken(cfg) == cfg.apiToken # <<>> /\ cfg.apiToken[1] # ""

\* C25: constructing a client without an apiToken, missing or empty, fails
\* with a Validation error and yields no client; with an apiToken the
\* construction succeeds.
C25_TokenRequired ==
    /\ made.pc \in {"new", "built", "threw"}
    /\ (made.pc # "new" /\ ~HasToken(made.config))
           => /\ made.pc = "threw"
              /\ made.thrown = ValidationError
              /\ made.client = NoClient
    /\ (made.pc # "new" /\ HasToken(made.config))
           => /\ made.pc = "built"
              /\ made.thrown = NoError
              /\ made.client.apiToken = made.config.apiToken[1]

\* the constructor threw for an empty token
C25_Witness ==
    /\ made.pc = "threw"
    /\ made.config.apiToken = <<"">>
    /\ made.thrown.kind = "Validation"

\* and built a client with the defaults in place of the zero values
C25_WitnessBuilt ==
    /\ made.pc = "built"
    /\ made.config.timeout = <<0>>
    /\ made.config.maxRetries = <<0>>
    /\ made.client.timeout = DEFAULT_TIMEOUT
    /\ made.client.maxRetries = 0

-----------------------------------------------------------------------------
(* The request sent by each attempt (SpecCalls) *)

\* every attempt of the call under way was sent the request built when the
\* call was made: the same url, method, body and headers
SameRequestEachAttempt ==
    /\ pc # "idle" =>
           /\ calls.request.url = <<DEFAULT_BASE_URL, calls.endpoint>>
           /\ calls.request.method = calls.options.method
           /\ calls.request.body = calls.options.body
    /\ \A i \in 1 .. Len(calls.sent) : calls.sent[i] = calls.request

\* the custom header k is one the call sends as it was configured
SentAsConfigured(k) ==
    \A i \in 1 .. Len(calls.sent) :
        /\ k \in DOMAIN calls.sent[i].headers
        /\ calls.sent[i].headers[k] = calls.custom[k]

\* C26 as stated: every attempt of a call is sent with the same URL, method,
\* body and headers, and the headers hold every customHeaders entry that no
\* per-call header overrides.
C26_Original ==
    /\ SameRequestEachAttempt
    /\ \A k \in DOMAIN calls.custom :
           k \notin DOMAIN calls.options.headers => SentAsConfigured(k)

\* the custom Content-Type is empty and the body is not a FormData
EmptyContentType(k) ==
    /\ k = "Content-Type"
    /\ calls.custom[k] = ""
    /\ calls.options.body # "FormData"

\* C26, amended: every attempt of a call is sent with the same URL, method,
\* body and headers; the headers hold every customHeaders entry that no
\* per-call header overrides, except that an empty custom Content-Type sent
\* with a body that is not a FormData is replaced by application/json.
C26_SameRequestCustomHeaders ==
    /\ SameRequestEachAttempt
    /\ \A k \in DOMAIN calls.custom :
           /\ (k \notin DOMAIN calls.options.headers /\ ~EmptyContentType(k))
                  => SentAsConfigured(k)
           /\ (k \notin DOMAIN calls.options.headers /\ EmptyContentType(k))
                  => \A i \in 1 .. Len(calls.sent) :
                         calls.sent[i].headers[k] = "application/json"
           /\ k \in DOMAIN calls.options.headers
                  => \A i \in 1 .. Len(calls.sent) :
                         calls.sent[i].headers[k] = calls.options.headers[k]

\* three attempts of one call, each sent with the configured X-Custom-Header
\* and with the Accept header of the call in place of the configured one
C26_Witness ==
    /\ AttemptsOfCall = 3
    /\ "Accept" \in DOMAIN calls.custom
    /\ "Accept" \in DOMAIN calls.options.headers
    /\ calls.sent[3].headers["X-Custom-Header"] = "custom"
    /\ calls.sent[3].headers["Accept"] = "text/plain"
    /\ calls.sent[3] = calls.sent[1]

-----------------------------------------------------------------------------
(* The timeout of an attempt (Spec) *)

\* C27: an attempt is bounded by the timeout from the fetch call until it
\* has an outcome, the reading of the response body included: as long as
\* the attempt has no outcome its timer is pending, so that it fails with a
\* Timeout error when the time is up.
C27_TimeoutCoversAttempt ==
    pc \in {"inflight", "reading"} => wt.timer = "pending"

\* the part of an attempt that the timer does cover
TimerCoversFetch == pc = "inflight" => wt.timer = "pending"


\* the step in which the timer of the attempt under way fires first
TimesOut ==
    /\ pc = "inflight"
    /\ wt.out = "pending"
    /\ wt'.out = "rejected"
    /\ wt'.timer = "fired"

\* C28: the timeout is per attempt.  An attempt that times out fails with a
\* Timeout error and counts as one attempt; while attempts remain the call
\* sleeps the backoff delay of that attempt and then makes the next attempt
\* with a timer of its own, and after the last attempt the Timeout error is
\* thrown.
C28_TimeoutPerAttempt ==
    /\ [][TimesOut =>
            /\ lastError' = TimeoutError
            /\ isRetryableError(lastError')
            /\ attempt' = attempt
            /\ fetches' = fetches
            /\ nRetryableFails' = nRetryableFails + 1
            /\ attempt < maxRetries
                   => /\ pc' = "sleep"
                      /\ delay' = calculateBackoff(attempt, retryDelay)
                      /\ slept' = slept + 1
            /\ attempt >= maxRetries
                   => /\ pc' = "failed"
                      /\ thrown' = TimeoutError]_vars
    /\ [][(pc = "sleep" /\ pc' # "sleep") =>
            /\ pc' = "inflight"
            /\ attempt' = attempt + 1
            /\ fetches' = fetches + 1
            /\ now' = now + SleepTime(delay)
            /\ wt' = WtStart]_vars

\* two attempts timed out, the third is under way with its timer pending
C28_Witness ==
    /\ pc = "inflight"
    /\ attempt = 2
    /\ nRetryableFails = 2
    /\ lastError = TimeoutError
    /\ orphans = 2
    /\ wt.timer = "pending"

-----------------------------------------------------------------------------
(* Termination of waitForSeparation (SpecPollLive) and of request          *)
(* (SpecLive)                                                              *)

\* the deadline of the session lies within the time the model covers
InHorizon(p) == DeadlinePassed(p, MaxClock)

PollEnded(p) == p.pc \in {"returned", "failed"}

\* C29: every waitForSeparation call eventually ends, given that each status
\* request completes, time advances and sleeps end.  It ends with the done
\* status, a Separation error, a Timeout error once maxDuration is exceeded,
\* or the error of a failed status request (or that of a progress callback
\* that throws); the number of polls is bounded by the deadline, also for a
\* job that never reaches a terminal status.
C29_WaitEnds ==
    /\ [](LET p == poll[1]
          IN  /\ p.pc # "idle" =>
                     (p.fetches - 1) * SleepTime(p.interval) <= p.maxDuration
              /\ p.pc = "returned" => p.result.status = "done"
              /\ (p.pc = "failed" /\ p.thrown # CallbackError)
                     => \/ p.thrown = SeparationError(p.hash)
                        \/ /\ p.thrown = TimeoutError
                           /\ now - p.startTime > p.maxDuration
                        \/ p.thrown \in StatusFetchErrors)
    /\ (poll[1].pc # "idle" /\ InHorizon(poll[1])) ~> PollEnded(poll[1])

\* a job that never ends, polled three times and ended by the deadline
C29_Witness ==
    /\ poll[1].pc = "failed"
    /\ poll[1].thrown = TimeoutError
    /\ NeverTerminal(poll[1])
    /\ InHorizon(poll[1])
    /\ poll[1].fetches = 3


\* C30: every request call eventually returns or fails, given that every
\* attempt gets an outcome and every sleep timer fires: whatever the server
\* answers, the loop makes at most maxRetries + 1 attempts, sleeps only
\* between two of them, and then ends.
C30_RequestEnds ==
    /\ [](/\ fetches <= (IF maxRetries >= 0 THEN maxRetries + 1 ELSE 0)
          /\ slept <= (IF maxRetries >= 0 THEN maxRetries ELSE 0)
          /\ pc # "idle" => slept \in {fetches - 1, fetches})
    /\ (pc # "idle") ~> Done

\* a call answered 503 four times has ended
C30_Witness ==
    /\ Done
    /\ maxRetries = 3
    /\ fetches = 4
    /\ slept = 3
    /\ only503
    /\ thrown = APIError(503, lastResp.retryAfter)

-----------------------------------------------------------------------------
(* The delays slept between attempts (SpecHints) *)

\* C31: every delay slept between two attempts is at most the ceiling of
\* 32 seconds, whether it is the exponential backoff or the Retry-After
\* value of the server.
C31_DelayCapped == pc = "sleep" => LeqJS(delay, BACKOFF_CAP)

\* the delay slept after a failure that carried no Retry-After header is the
\* backoff, between retryDelay and the ceiling
BackoffDelayCapped ==
    (pc = "sleep" /\ lastResp.retryAfter = <<>>) =>
        /\ delay = calculateBackoff(attempt, retryDelay)
        /\ LeqJS(retryDelay, delay) \/ delay = BACKOFF_CAP
        /\ LeqJS(delay, BACKOFF_CAP)


\* C32: every delay slept between two attempts is non-negative, for every
\* Retry-After value of the server: integer seconds of any sign, a date in
\* the past or in the future, or garbage.
C32_DelayNonNegative == pc = "sleep" => LeqJS(0, delay)

\* the delay taken from a Retry-After date is never negative
DateDelayNonNegative ==
    (pc = "sleep" /\ lastResp.retryAfter # <<>>
        /\ ParseInt10(lastResp.retryAfter) = NaN) => LeqJS(0, delay)

-----------------------------------------------------------------------------
(* Failures inside a polling session (SpecPoll) *)

\* C33: when the progress callback throws during a poll, waitForSeparation
\* fails with that error, right after the callback was called with the status
\* just fetched, and the session makes no further status fetch and no
\* further callback call.
C33_CallbackErrorEndsSession ==
    /\ [](\A s \in Sessions :
            LET p == poll[s]
            IN  p.thrown = CallbackError =>
                    /\ p.pc = "failed"
                    /\ p.hasCb
                    /\ p.fetches = Len(p.seen)
                    /\ Len(p.log) = Len(p.seen)
                    /\ Last(p.log) = ProgressOf(p, Last(p.seen)))
    /\ [][\A s \in Sessions :
            poll[s].thrown = CallbackError => poll'[s] = poll[s]]_vars

\* the callback threw at the second poll of a job that had a third status
C33_Witness ==
    /\ poll[1].pc = "failed"
    /\ poll[1].thrown = CallbackError
    /\ poll[1].job = <<"waiting", "processing", "done">>
    /\ poll[1].fetches = 2
    /\ Len(poll[1].log) = 2
    /\ now > poll[1].startTime


\* C37: when the Retry-After value of the retryable response is absent,
\* unparseable or zero, the delay before the next attempt is the exponential
\* backoff min(retryDelay * 2^k, 32000), for a 429 and for any other status,
\* and is never 0 ms.
C37_NoHintMeansBackoff ==
    (pc = "sleep" /\ lastResp # NoResp
        /\ parseRetryAfter(lastResp.retryAfter, now) = 0) =>
            /\ delay = calculateBackoff(attempt, retryDelay)
            /\ delay # 0

\* what holds: a 429 whose Retry-After gives no delay is retried after the
\* exponential backoff
RateLimitNoHintMeansBackoff ==
    (pc = "sleep" /\ lastResp.status = 429
        /\ parseRetryAfter(lastResp.retryAfter, now) = 0) =>
            delay = calculateBackoff(attempt, retryDelay)


-----------------------------------------------------------------------------
(* What a failed request call throws, and after how many attempts *)

\* C34: every failure of a request call is a value of the error taxonomy
\* (Network, Timeout, RateLimit, Authentication, Validation or API): no raw
\* exception and no undefined value reaches the caller.
C34_FailuresInTaxonomy ==
    pc = "failed" => thrown.kind \in TaxonomyKinds

\* what holds: a call that failed after at least one attempt throws the
\* taxonomy error of its last attempt
AttemptFailuresInTaxonomy ==
    (pc = "failed" /\ fetches >= 1) =>
        /\ thrown.kind \in TaxonomyKinds
        /\ thrown = lastError

\* C38: for every maxRetries the constructor accepts, negative ones included,
\* a request call issues at least one HTTP attempt before it fails, and with
\* maxRetries = 0 it issues exactly one.
C38_AtLeastOneAttempt ==
    /\ pc = "failed" => fetches >= 1
    /\ (Done /\ maxRetries = 0) => fetches = 1

\* what holds: with maxRetries >= 0 a finished call made between one and
\* maxRetries + 1 attempts
OneAttemptWhenNotNegative ==
    (Done /\ maxRetries >= 0) =>
        /\ fetches >= 1
        /\ fetches <= maxRetries + 1
        /\ maxRetries = 0 => fetches = 1


-----------------------------------------------------------------------------
(* SpecWait: one waitForSeparation call whose status requests are request   *)
(* calls of the client (client.ts:444-446), each running the retry loop     *)
(* against a server that answers 200, 404 or 503, or not in time.  The      *)
(* status a 200 carries is the job's next status.                           *)

WaitMaxRetries == {0, 1}
\* config.retryDelay of the client, in ms
WaitRetryDelays == {10}
WaitJobs ==
    {<<"waiting", "processing", "done">>, <<"processing", "error">>,
     <<"processing">>}

\* client.ts:445: the endpoint of the status request
StatusCall(hash) ==
    [OneCall EXCEPT !.limit = MaxJobLen,
                    !.endpoint = <<"/api/separation/get?hash=", hash>>]

InitWait ==
    /\ maxRetries \in WaitMaxRetries
    /\ retryDelay \in WaitRetryDelays
    /\ now = 0
    /\ InitLocals
    /\ server = "job"
    /\ calls = StatusCall(HashOf(1))
    /\ sep = NoCreate
    /\ made = NotConstructed
    /\ util = UtilIdle
    /\ \E p \in PollConfigs(1, WaitJobs, BOOLEAN) :
           poll = [NoPolls EXCEPT ![1] = p]

\* the status request of the current poll has been issued
StatusRequested(p) == calls.made = p.fetches

\* client.ts:488, 445: getSeparation calls request
GetSeparationCalled ==
    /\ poll[1].pc = "fetching"
    /\ ~StatusRequested(poll[1])
    /\ CallRequest \/ CallRequestAgain

\* client.ts:488-514: the request of getSeparation resolved
GetSeparationResolves ==
    /\ StatusRequested(poll[1])
    /\ pc = "returned"
    /\ StatusArrives(1)

\* client.ts:488: the request of getSeparation rejected with `thrown`, and
\* the await rethrows it out of waitForSeparation
GetSeparationRejects ==
    /\ poll[1].pc = "fetching"
    /\ StatusRequested(poll[1])
    /\ pc = "failed"
    /\ poll' = [poll EXCEPT ![1] = OnStatusFailure(poll[1], thrown)]
    /\ UNCHANGED <<callVars, now>>

NextWait ==
    \/ CallWaitForSeparation(1)
    \/ GetSeparationCalled
    \/ FetchResolves
    \/ BodyRead
    \/ FetchRejects
    \/ FetchTimesOut
    \/ Wake
    \/ LateSettle
    \/ OrphanSettles
    \/ GetSeparationResolves
    \/ GetSeparationRejects
    \/ WakePoll(1)
    \/ Tick

SpecWait == InitWait /\ [][NextWait]_vars

\* the last status request of the session failed: its status never arrived
StatusRequestFailed(p) == p.pc = "failed" /\ Len(p.seen) < p.fetches

\* C35: waitForSeparation fails with a Timeout error only when the time
\* elapsed since the start of the session exceeds maxDuration.
C35_TimeoutMeansDeadline ==
    (poll[1].pc = "failed" /\ poll[1].thrown.kind = "Timeout") =>
        DeadlinePassed(poll[1], now)

\* what holds: a Timeout error that is not the error of a status request is
\* thrown with the deadline passed
DeadlineTimeoutMeansDeadline ==
    (poll[1].pc = "failed" /\ poll[1].thrown.kind = "Timeout"
        /\ ~StatusRequestFailed(poll[1])) => DeadlinePassed(poll[1], now)


\* C36: when a status request inside waitForSeparation fails, by an error
\* that is not retryable or by retryable errors until its retries are used
\* up, waitForSeparation fails with that same error, the progress callback is
\* not called for that poll and no further status request is issued; every
\* status request has its own budget of maxRetries + 1 attempts.
C36_StatusFailureEndsSession ==
    /\ [](StatusRequestFailed(poll[1]) =>
            /\ pc = "failed"
            /\ poll[1].thrown = thrown
            /\ thrown = lastError
            /\ StatusRequested(poll[1])
            /\ Len(poll[1].log) = (IF poll[1].hasCb THEN Len(poll[1].seen) ELSE 0)
            /\ isRetryableError(thrown) => Len(calls.sent) = maxRetries + 1)
    /\ [](Len(calls.sent) <= maxRetries + 1)
    /\ [][(poll[1].pc = "fetching" /\ StatusRequested(poll[1]) /\ pc = "failed")
            => (StatusRequestFailed(poll'[1]) \/ poll' = poll)]_vars
    /\ [][StatusRequestFailed(poll[1]) =>
            (poll' = poll /\ calls' = calls /\ fetches' = fetches)]_vars

\* the second status request failed with a 503 after maxRetries + 1 = 2
\* attempts of its own, the first one having used two attempts as well
C36_Witness ==
    /\ StatusRequestFailed(poll[1])
    /\ maxRetries = 1
    /\ poll[1].hasCb
    /\ poll[1].fetches = 2
    /\ Len(poll[1].log) = 1
    /\ calls.first.fetches = 2
    /\ Len(calls.sent) = 2
    /\ fetches = 4
    /\ poll[1].thrown = APIError(503, <<>>)

\* a status request that failed at its first attempt with an error that is
\* not retryable
C36_WitnessNotRetryable ==
    /\ StatusRequestFailed(poll[1])
    /\ maxRetries = 1
    /\ Len(calls.sent) = 1
    /\ poll[1].thrown = APIError(404, <<>>)

=============================================================================
